---- MODULE Spec2Model ----
(***************************************************************************)
(* Model of the ingestion core of snoopy: the event buffer                 *)
(* (snoopy/buffer.py), the SQLite store (snoopy/db.py), the collector base *)
(* class (snoopy/collectors/base.py), the shell collector                  *)
(* (snoopy/collectors/shell.py) and the daemon (snoopy/daemon.py).         *)
(*                                                                         *)
(* Threads are numbered: 0 is the main thread, 1..MaxInst are the polling  *)
(* threads of the collector instances (instance i runs in thread i), and   *)
(* 101.. are the producer threads of the buffer harness                    *)
(* (tests/test_buffer.py).                                                 *)
(***************************************************************************)
EXTENDS Integers, Sequences, FiniteSets, TLC

\* ------------------------------------------------------------------------
\* Bounds of the model
\* ------------------------------------------------------------------------

\* K: number of producer threads of the buffer harness.
NumProducers == 2

\* J: number of events each producer pushes.
EventsPerProducer == 2

\* config.BUFFER_MAX_SIZE, scaled down from 500 so that in-line flushes fire.
BUFFER_MAX_SIZE == 3

\* Number of flush() calls the main thread may issue while producers run.
MaxInterimFlush == 1

\* ------------------------------------------------------------------------
\* Threads
\* ------------------------------------------------------------------------

Main == 0

\* The frame of a signal handler, which runs on top of the main thread.
Handler == 50

MaxInst == 2

InstIds == 1..MaxInst

Producers == 101..(100 + NumProducers)

Threads == {Main, Handler} \cup InstIds \cup Producers

NoThread == -1

\* The `name` of the collector classes the model registers.
CollectorNames == {"shell", "wifi"}

\* ------------------------------------------------------------------------
\* The store: tables, schema, batch_insert
\* ------------------------------------------------------------------------

\* The part of db._VALID_TABLES the model uses.
VALID_TABLES == {"wifi_events", "shell_events", "daemon_health", "collector_state"}

\* Event tables the store keeps rows for in the model.
RowTables == {"wifi_events", "shell_events", "daemon_health"}

\* Tables db._SCHEMA creates (the modelled ones).
SchemaTables == RowTables \cup {"collector_state"}

\* A schema script that recreates its tables.
ApplySchemaRecreate(db) == [tb \in SchemaTables |-> <<>>]

\* executescript(_SCHEMA): every statement is CREATE TABLE IF NOT EXISTS, so
\* a missing table is created empty and an existing one keeps its rows.
ApplySchema(db) ==
    [tb \in SchemaTables \cup DOMAIN db |-> IF tb \in DOMAIN db THEN db[tb] ELSE <<>>]

\* Column names each table declares in db._SCHEMA.
TableSchema(table) ==
    CASE table = "wifi_events"   -> {"timestamp", "ssid", "bssid"}
      [] table = "shell_events"  -> {"timestamp", "command", "elapsed_seconds"}
      [] table = "daemon_health" -> {"timestamp", "event_type", "details"}
      [] OTHER                   -> {}

SeqToSet(s) == {s[i] : i \in 1..Len(s)}

\* buffer.Event: a table, a column list and a value tuple.
Event(table, columns, values) ==
    [table |-> table, columns |-> columns, values |-> values]

\* What Database.batch_insert(table, columns, rows) does on a store whose
\* connection is open (connOpen) and whose engine accepts the write (dbok):
\* "noop" for an empty batch, an exception name, or "ok".
BatchInsertOutcome(connOpen, table, columns, rows, dbok) ==
    IF rows = <<>> THEN "noop"
    ELSE IF table \notin VALID_TABLES THEN "ValueError"
    ELSE IF ~connOpen THEN "RuntimeError"
    ELSE IF \/ ~dbok
            \/ ~(SeqToSet(columns) \subseteq TableSchema(table))
            \/ \E i \in 1..Len(rows) : Len(rows[i]) # Len(columns)
         THEN "sqlite3.Error"
    ELSE "ok"

Raised(outcome) == outcome \notin {"ok", "noop"}

RECURSIVE RowsOf(_, _)
RowsOf(columns, rows) ==
    IF rows = <<>> THEN <<>>
    ELSE <<[columns |-> columns, values |-> Head(rows)]>> \o RowsOf(columns, Tail(rows))

\* The tables after batch_insert: all rows of the batch are appended in one
\* transaction when the outcome is "ok", nothing changes otherwise.
BatchInsertRows(tables, table, columns, rows, outcome) ==
    IF outcome = "ok"
    THEN [tables EXCEPT ![table] = @ \o RowsOf(columns, rows)]
    ELSE tables

\* ------------------------------------------------------------------------
\* State
\* ------------------------------------------------------------------------

VARIABLES
    events,       \* EventBuffer._events: the pending queue
    bufLock,      \* EventBuffer._lock: the thread holding it, or NoThread
    bcall,        \* per thread: the EventBuffer call it is executing
    conn,         \* Database._conn: "open" or "closed"
    opens,        \* number of connections opened on the file so far
    tables,       \* the database file: rows of each table, in row id order
    faults,       \* environment: writes the storage engine will still reject
    wcall,        \* per thread: the get_watermark / set_watermark call it runs
    lastSet,      \* history: per collector name, the last watermark set
    handed,       \* history: how often each event was given to batch_insert
    lost,         \* history: events whose batch_insert raised
    pushed,       \* history: the events handed to push / push_many so far
    registry,     \* daemon.ALL_COLLECTORS: the registered collector classes
    daemon,       \* main thread of the daemon: position, operation, index
    running,      \* Daemon._running
    collectors,   \* Daemon.collectors: instance ids, in start order
    nextInst,     \* number of collector instances created so far
    inst,         \* per instance: class, _stop_event, thread, _offset, counters
    fileSize,     \* size of the zsh history file (config.ZSH_HISTORY)
    ticks,        \* iterations of the flush loop so far
    resume,       \* where the main thread goes on when the handler returns
    atReload,     \* history: the events pending when reload() was entered
    sent,         \* harness: events each producer has pushed so far
    mpc,          \* harness: position of the main thread
    interim,      \* harness: flush() calls issued while producers ran
    batch,        \* harness: the last direct call of batch_insert and its outcome
    transcript,   \* a transcript file, its writer and the reader's offset
    txn,          \* Database._lock, the connection's open transaction, its users
    lc,           \* one collector object driven through start() and stop()
    cc,           \* a ClaudeCollector, its transcript file and the clock
    probe,        \* one call of a pure parser: its input and what it returned
    boot,         \* _start_collectors: the stored cursors, or the collector list
    sync,         \* linus.sync: the training thread, its callers, the state file
    net           \* a NetworkCollector and the polls of lsof it has seen

bufVars == <<events, bufLock, bcall>>

storeVars == <<conn, opens, tables, faults, wcall, lastSet>>

histVars == <<handed, lost, pushed>>

daemonVars == <<registry, daemon, running, collectors, nextInst, inst, fileSize, ticks,
                resume, atReload>>

testVars == <<sent, mpc, interim>>

clientVars == <<batch, transcript, txn, lc, cc, probe, boot, sync, net>>

harnessVars == <<testVars, clientVars, daemonVars>>

vars == <<bufVars, storeVars, histVars, harnessVars>>

\* The process is over after sys.exit(0) or an exception in the main thread;
\* its threads are daemon threads and end with it.
ProcessAlive == daemon.pc \notin {"exited", "crashed"}

\* A signal handler runs on the main thread: what the main thread was doing
\* when the signal arrived stands still until the handler returns.
Runnable(t) == t # Main \/ resume = "none"

\* ------------------------------------------------------------------------
\* EventBuffer
\* ------------------------------------------------------------------------

IdleCall == [pc |-> "idle", op |-> "none", arg |-> <<>>, by_table |-> <<>>,
             grouped |-> <<>>, tried |-> <<>>, exc |-> FALSE]

\* A thread enters push, push_many or flush: it is about to take the lock.
EnterCall(t, op, arg) ==
    /\ bcall' = [bcall EXCEPT ![t] = [IdleCall EXCEPT !.pc = "acquire",
                                                      !.op = op, !.arg = arg]]
    /\ pushed' = pushed \cup SeqToSet(arg)

\* A grouping that files every event under the table of the first one.
GroupByTableFirstOnly(evs, acc) ==
    IF evs = <<>> THEN acc
    ELSE <<[table |-> Head(evs).table, columns |-> Head(evs).columns,
            rows |-> [i \in 1..Len(evs) |-> evs[i].values]]>>

\* The grouping loop of _flush_locked: one entry per table in first-seen
\* order (dict insertion order); the entry keeps the column list of the
\* first event of its table and the value tuples of all of them.
RECURSIVE GroupByTable(_, _)
GroupByTable(evs, acc) ==
    IF evs = <<>> THEN acc
    ELSE LET ev == Head(evs)
             at == {i \in 1..Len(acc) : acc[i].table = ev.table}
         IN IF at = {}
            THEN GroupByTable(Tail(evs),
                     Append(acc, [table |-> ev.table, columns |-> ev.columns,
                                  rows |-> <<ev.values>>]))
            ELSE LET i == CHOOSE j \in at : TRUE
                 IN GroupByTable(Tail(evs),
                        [acc EXCEPT ![i].rows = Append(@, ev.values)])

\* Number of writes the storage engine rejects in one run.
MaxFaults == 1

\* The answers the storage engine can give to the next write: it accepts
\* it, or (while the fault budget lasts) rejects it with an sqlite3 error.
EngineAnswers == IF faults > 0 THEN BOOLEAN ELSE {TRUE}

\* A threshold test that fires only when the queue exceeds the maximum.
ThresholdReachedAbove(queue) == Len(queue) > BUFFER_MAX_SIZE

\* Whether push / push_many go on to _flush_locked after appending.
ThresholdReached(queue) == Len(queue) >= BUFFER_MAX_SIZE

\* A _flush_locked that does not clear the queue.
FlushLockedBeginNoClear(call, q) ==
    IF q = <<>>
    THEN [call |-> [call EXCEPT !.pc = "release"], queue |-> q]
    ELSE LET g == GroupByTable(q, <<>>)
         IN [call |-> [call EXCEPT !.pc = "insert", !.by_table = g, !.grouped = g],
             queue |-> q]

\* The first half of _flush_locked, on queue q: returns the call record and
\* the new queue.  An empty queue returns at once; otherwise the queue is
\* grouped and cleared and the insert loop starts.
FlushLockedBegin(call, q) ==
    IF q = <<>>
    THEN [call |-> [call EXCEPT !.pc = "release"], queue |-> q]
    ELSE LET g == GroupByTable(q, <<>>)
         IN [call |-> [call EXCEPT !.pc = "insert", !.by_table = g, !.grouped = g],
             queue |-> <<>>]

\* A lock that never makes a thread wait.
LockFreeAlways(lock) == TRUE

\* threading.Lock of the buffer: `with self._lock:` is entered only while no
\* thread holds the lock.
LockFree(lock) == lock = NoThread

\* push and push_many: `with self._lock:`, append, and when the threshold is
\* reached the first half of _flush_locked.  Taking the lock and changing
\* the queue is one step; the thread keeps the lock when it goes on to the
\* insert loop and has released it otherwise.
BufAppend(t) ==
    /\ ProcessAlive
    /\ Runnable(t)
    /\ bcall[t].pc = "acquire"
    /\ bcall[t].op \in {"push", "push_many"}
    /\ LockFree(bufLock)
    /\ LET q == events \o bcall[t].arg
       IN IF ThresholdReached(q)
          THEN LET r == FlushLockedBegin(bcall[t], q)
               IN /\ events' = r.queue
                  /\ bcall' = [bcall EXCEPT ![t] =
                                  IF r.call.pc = "insert" THEN r.call ELSE IdleCall]
                  /\ bufLock' = IF r.call.pc = "insert" THEN t ELSE NoThread
          ELSE /\ events' = q
               /\ bcall' = [bcall EXCEPT ![t] = IdleCall]
               /\ bufLock' = NoThread
    /\ UNCHANGED <<storeVars, histVars, harnessVars>>

\* flush: `with self._lock:` and the first half of _flush_locked.
BufFlushBegin(t) ==
    /\ ProcessAlive
    /\ Runnable(t)
    /\ bcall[t].pc = "acquire"
    /\ bcall[t].op = "flush"
    /\ LockFree(bufLock)
    /\ LET r == FlushLockedBegin(bcall[t], events)
       IN /\ events' = r.queue
          /\ bcall' = [bcall EXCEPT ![t] =
                          IF r.call.pc = "insert" THEN r.call ELSE IdleCall]
          /\ bufLock' = IF r.call.pc = "insert" THEN t ELSE NoThread
    /\ UNCHANGED <<storeVars, histVars, harnessVars>>

CountIn(rows, v) == Cardinality({i \in 1..Len(rows) : rows[i] = v})

\* History of the calls of batch_insert made by the insert loop.
AddHanded(h, rows) ==
    [v \in DOMAIN h \cup SeqToSet(rows) |->
        (IF v \in DOMAIN h THEN h[v] ELSE 0) + CountIn(rows, v)]

\* An insert loop without try/except: the error leaves the loop and the call.
AfterInsertErrorPropagate(call, rest) ==
    [call EXCEPT !.by_table = <<>>, !.exc = TRUE, !.pc = "release"]

\* The `except Exception` of the insert loop: the error is logged and the
\* loop goes on with the remaining tables.
AfterInsertError(call, rest) ==
    [call EXCEPT !.by_table = rest,
                 !.pc = IF rest = <<>> THEN "release" ELSE "insert"]

\* One iteration of the insert loop of _flush_locked: batch_insert for the
\* next table, inside try/except.
BufInsert(t) ==
    /\ ProcessAlive
    /\ Runnable(t)
    /\ bcall[t].pc = "insert"
    /\ bcall[t].by_table # <<>>
    /\ \E dbok \in EngineAnswers :
         LET b    == Head(bcall[t].by_table)
             rest == Tail(bcall[t].by_table)
             out  == BatchInsertOutcome(conn = "open", b.table, b.columns, b.rows, dbok)
             call == [bcall[t] EXCEPT !.tried = Append(@, [table |-> b.table, outcome |-> out])]
         IN /\ tables' = BatchInsertRows(tables, b.table, b.columns, b.rows, out)
            /\ faults' = IF dbok THEN faults ELSE faults - 1
            /\ handed' = AddHanded(handed, b.rows)
            /\ lost' = IF Raised(out) THEN lost \cup SeqToSet(b.rows) ELSE lost
            /\ bcall' = [bcall EXCEPT ![t] =
                            IF Raised(out)
                            THEN AfterInsertError(call, rest)
                            ELSE [call EXCEPT !.by_table = rest,
                                              !.pc = IF rest = <<>> THEN "release"
                                                     ELSE "insert"]]
    /\ UNCHANGED <<events, bufLock, conn, opens, wcall, lastSet, pushed, harnessVars>>

\* Leaving the `with self._lock:` block after the insert loop; the call
\* returns (or, with exc set, raises to its caller).
BufRelease(t) ==
    /\ ProcessAlive
    /\ Runnable(t)
    /\ bcall[t].pc = "release"
    /\ bufLock' = IF bufLock = t THEN NoThread ELSE bufLock
    /\ bcall' = [bcall EXCEPT ![t] = IdleCall]
    /\ UNCHANGED <<events, storeVars, histVars, harnessVars>>

BufferStep == \E t \in Threads :
    \/ BufAppend(t)
    \/ BufFlushBegin(t)
    \/ BufInsert(t)
    \/ BufRelease(t)

\* ------------------------------------------------------------------------
\* Watermarks: Database.get_watermark / set_watermark, open and close
\* ------------------------------------------------------------------------

None == <<"None">>

\* SELECT last_watermark FROM collector_state WHERE collector_name = ?
\* followed by fetchone(): the first matching row, or None.
SelectWatermark(db, name) ==
    LET cs == db["collector_state"]
        at == {i \in 1..Len(cs) : cs[i].collector_name = name}
    IN IF at = {} THEN None
       ELSE cs[CHOOSE i \in at : \A j \in at : i <= j].last_watermark

\* A plain INSERT, without the conflict clause.
UpsertInsertOnly(cs, name, watermark, run_ts) ==
    Append(cs, [collector_name |-> name, last_watermark |-> watermark,
                last_run_timestamp |-> run_ts])

\* INSERT ... ON CONFLICT(collector_name) DO UPDATE SET last_watermark,
\* last_run_timestamp: the row of that name is updated in place, or a new
\* row is appended when there is none.
Upsert(cs, name, watermark, run_ts) ==
    LET at == {i \in 1..Len(cs) : cs[i].collector_name = name}
    IN IF at = {}
       THEN Append(cs, [collector_name |-> name, last_watermark |-> watermark,
                        last_run_timestamp |-> run_ts])
       ELSE [i \in 1..Len(cs) |->
                IF i \in at
                THEN [cs[i] EXCEPT !.last_watermark = watermark,
                                   !.last_run_timestamp = run_ts]
                ELSE cs[i]]

IdleWm == [pc |-> "idle", op |-> "none", name |-> "", value |-> None, ts |-> 0,
           h |-> 0, result |-> None, want |-> None, exc |-> "none"]

\* A thread enters get_watermark(name) or set_watermark(name, value, ts).
EnterWm(t, op, name, value, ts) ==
    wcall' = [wcall EXCEPT ![t] = [IdleWm EXCEPT !.pc = "ensure", !.op = op,
                                                 !.name = name, !.value = value,
                                                 !.ts = ts]]

\* conn = self._ensure_conn(): raises RuntimeError when the store is closed,
\* otherwise the thread keeps a reference to the current connection.
WmEnsureConn(t) ==
    /\ wcall[t].pc = "ensure"
    /\ wcall' = [wcall EXCEPT ![t] =
                    IF conn = "open"
                    THEN [@ EXCEPT !.pc = "exec", !.h = opens]
                    ELSE [@ EXCEPT !.pc = "ret", !.exc = "RuntimeError"]]
    /\ UNCHANGED <<bufVars, conn, opens, faults, tables, lastSet, histVars, harnessVars>>

\* The `with self._lock:` block of get_watermark and set_watermark, run as
\* one step: the statement (and for a set the commit) on the connection
\* obtained before.  A connection closed in between raises
\* sqlite3.ProgrammingError.
WmExecute(t) ==
    /\ wcall[t].pc = "exec"
    /\ LET c == wcall[t]
           live == conn = "open" /\ opens = c.h
       IN IF ~live
          THEN /\ wcall' = [wcall EXCEPT ![t] = [@ EXCEPT !.pc = "ret",
                                                  !.exc = "sqlite3.ProgrammingError"]]
               /\ UNCHANGED <<tables, lastSet>>
          ELSE IF c.op = "get"
          THEN /\ wcall' = [wcall EXCEPT ![t] =
                              [@ EXCEPT !.pc = "ret",
                                        !.result = SelectWatermark(tables, c.name),
                                        !.want = lastSet[c.name].value]]
               /\ UNCHANGED <<tables, lastSet>>
          ELSE /\ tables' = [tables EXCEPT !["collector_state"] =
                                Upsert(@, c.name, c.value, c.ts)]
               /\ lastSet' = [lastSet EXCEPT ![c.name] = [value |-> c.value, h |-> opens]]
               /\ wcall' = [wcall EXCEPT ![t] = [IdleWm EXCEPT !.pc = "ret", !.op = "set"]]
    /\ UNCHANGED <<bufVars, conn, opens, faults, histVars, harnessVars>>

\* Database.close().
DbClose ==
    /\ conn = "open"
    /\ conn' = "closed"
    /\ UNCHANGED <<bufVars, opens, faults, tables, wcall, lastSet, histVars, harnessVars>>

MaxOpens == 2

\* Database.open() on the same file: connect and apply the schema.
DbOpen ==
    /\ conn = "closed"
    /\ opens < MaxOpens
    /\ conn' = "open"
    /\ opens' = opens + 1
    /\ tables' = ApplySchema(tables)
    /\ UNCHANGED <<bufVars, wcall, faults, lastSet, histVars, harnessVars>>

\* ------------------------------------------------------------------------
\* Collectors: BaseCollector, ShellCollector, WifiCollector
\* ------------------------------------------------------------------------

\* The lists of classes the model registers as daemon.ALL_COLLECTORS
\* (sub-lists of the list of daemon.py, in its order).
Registries == {<<"shell">>, <<"shell", "wifi">>}

\* The class attribute `interval` (config.SHELL_INTERVAL, WIFI_INTERVAL).
Interval(cls) == CASE cls = "shell" -> 10 [] cls = "wifi" -> 30 [] OTHER -> 0

\* Number of collect() calls that raise, over all instances.
MaxRaises == 1

\* Number of events the WifiCollector instances emit, over all instances.
MaxEmit == 1

\* Lines appended to the history file.
MaxFile == 2

\* Iterations of the flush loop.
MaxTicks == 1

NoInst == [cls |-> "none", stop |-> FALSE, th |-> "none", cstep |-> "none",
           offset |-> 0, setups |-> 0, teardowns |-> 0, raises |-> 0, emitted |-> 0,
           due |-> FALSE]

DigitChars == <<"0", "1", "2", "3", "4", "5", "6", "7", "8", "9">>

\* str(n) for n >= 0: the decimal digits of n.
RECURSIVE Str(_)
Str(n) == IF n < 10 THEN <<DigitChars[n + 1]>>
          ELSE Str(n \div 10) \o <<DigitChars[(n % 10) + 1]>>

DigitValue(c) == (CHOOSE d \in 1..10 : DigitChars[d] = c) - 1

\* int(s) for a string of decimal digits.
RECURSIVE ParseInt(_)
ParseInt(s) == IF Len(s) = 1 THEN DigitValue(s[1])
          ELSE 10 * ParseInt(SubSeq(s, 1, Len(s) - 1)) + DigitValue(s[Len(s)])

\* A setup that reads the history file from its start on every run.
ShellSetupFromStart(db, size) == 0

\* ShellCollector.setup: the saved offset, or on the first run the current
\* size of the history file.  One history line is one unit long.
ShellSetup(db, size) ==
    LET saved == SelectWatermark(db, "shell")
    IN IF saved # None THEN ParseInt(saved) ELSE size

\* The event ShellCollector builds for the history line that ends at offset
\* `line`: (timestamp, command, elapsed_seconds).
ShellEvent(line) ==
    Event("shell_events", <<"timestamp", "command", "elapsed_seconds">>, <<0, line, 0>>)

\* The n-th event of WifiCollector instance i: (timestamp, ssid, bssid).
WifiEvent(i, n) ==
    Event("wifi_events", <<"timestamp", "ssid", "bssid">>, <<i, n, 0>>)

RECURSIVE SumOver(_, _)
SumOver(S, f) == IF S = {} THEN 0
                 ELSE LET x == CHOOSE y \in S : TRUE IN f[x] + SumOver(S \ {x}, f)

TotalRaises == SumOver(InstIds, [i \in InstIds |-> inst[i].raises])

TotalEmitted == SumOver(InstIds, [i \in InstIds |-> inst[i].emitted])

\* The user's shell appends a line to the history file.
HistoryAppend ==
    /\ fileSize < MaxFile
    /\ fileSize' = fileSize + 1
    /\ UNCHANGED <<bufVars, storeVars, histVars, testVars, clientVars, registry, resume, atReload,
                   daemon, running, collectors, nextInst, inst, ticks>>

\* The interval of a waiting collector thread elapses.
TimerElapse(i) ==
    /\ ProcessAlive
    /\ inst[i].th = "loop"
    /\ ~inst[i].due
    /\ ~inst[i].stop
    /\ inst' = [inst EXCEPT ![i].due = TRUE]
    /\ UNCHANGED <<bufVars, storeVars, histVars, testVars, clientVars, registry, resume, atReload,
                   daemon, running, collectors, nextInst, fileSize, ticks>>

\* A _run_loop that sleeps the whole interval whatever the stop event.
WaitReturnsSleep(c) == c.due

\* _stop_event.wait(timeout=self.interval) returns when the event is set or
\* when the interval has elapsed (a thread that just started does not wait).
WaitReturns(c) == c.stop \/ c.due

\* _run_loop between two collect() calls: _stop_event.wait returns, then
\* `while not self._stop_event.is_set()` ends the thread or calls collect().
ThreadLoop(i) ==
    /\ ProcessAlive
    /\ inst[i].th = "loop"
    /\ WaitReturns(inst[i])
    /\ inst' = [inst EXCEPT ![i] =
                   IF @.stop THEN [@ EXCEPT !.th = "exited"]
                   ELSE [@ EXCEPT !.th = "collect", !.cstep = "begin", !.due = FALSE]]
    /\ UNCHANGED <<bufVars, storeVars, histVars, testVars, clientVars, registry, resume, atReload,
                   daemon, running, collectors, nextInst, fileSize, ticks>>

\* A _run_loop without try/except: the error ends the thread.
AfterCollectErrorExit(c) ==
    [c EXCEPT !.th = "exited", !.cstep = "none", !.raises = @ + 1]

\* The `except Exception` of _run_loop: the error is logged and the loop
\* goes on to _stop_event.wait.
AfterCollectError(c) ==
    [c EXCEPT !.th = "loop", !.cstep = "none", !.raises = @ + 1]

\* collect() raises before it pushed anything.
CollectRaise(i) ==
    /\ ProcessAlive
    /\ inst[i].th = "collect"
    /\ inst[i].cstep = "begin"
    /\ TotalRaises < MaxRaises
    /\ inst' = [inst EXCEPT ![i] = AfterCollectError(@)]
    /\ UNCHANGED <<bufVars, storeVars, histVars, testVars, clientVars, registry, resume, atReload,
                   daemon, running, collectors, nextInst, fileSize, ticks>>

\* ShellCollector.collect up to push_many: stat the file, return when it did
\* not grow (resetting the offset when it shrank), else read the new lines,
\* move _offset to the end and call push_many.
ShellCollect(i) ==
    /\ ProcessAlive
    /\ inst[i].th = "collect"
    /\ inst[i].cstep = "begin"
    /\ inst[i].cls = "shell"
    /\ bcall[i].pc = "idle"
    /\ IF fileSize <= inst[i].offset
       THEN /\ inst' = [inst EXCEPT ![i] =
                          [@ EXCEPT !.offset = IF fileSize < @ THEN 0 ELSE @,
                                    !.th = "loop", !.cstep = "none"]]
            /\ UNCHANGED <<bcall, pushed>>
       ELSE /\ EnterCall(i, "push_many",
                         [n \in 1..(fileSize - inst[i].offset) |->
                             ShellEvent(inst[i].offset + n)])
            /\ inst' = [inst EXCEPT ![i] = [@ EXCEPT !.offset = fileSize,
                                                     !.cstep = "push"]]
    /\ UNCHANGED <<events, bufLock, storeVars, handed, lost, testVars, clientVars, registry, resume, atReload,
                   daemon, running, collectors, nextInst, fileSize, ticks>>

\* ShellCollector.collect after push_many returned:
\* self.set_watermark(str(self._offset)), which raises into _run_loop when
\* the store is closed.
ShellSetWatermark(i) ==
    /\ ProcessAlive
    /\ inst[i].th = "collect"
    /\ inst[i].cstep = "push"
    /\ inst[i].cls = "shell"
    /\ bcall[i].pc = "idle"
    /\ IF conn = "open"
       THEN /\ tables' = [tables EXCEPT !["collector_state"] =
                             Upsert(@, "shell", Str(inst[i].offset), ticks)]
            /\ lastSet' = [lastSet EXCEPT !["shell"] =
                              [value |-> Str(inst[i].offset), h |-> opens]]
            /\ inst' = [inst EXCEPT ![i] = [@ EXCEPT !.th = "loop", !.cstep = "none"]]
       ELSE /\ inst' = [inst EXCEPT ![i] = AfterCollectError(@)]
            /\ UNCHANGED <<tables, lastSet>>
    /\ UNCHANGED <<bufVars, conn, opens, faults, wcall, histVars, testVars, clientVars, registry, resume, atReload,
                   daemon, running, collectors, nextInst, fileSize, ticks>>

\* WifiCollector.collect: return when the SSID did not change, else push one
\* event.
WifiCollect(i) ==
    /\ ProcessAlive
    /\ inst[i].th = "collect"
    /\ inst[i].cstep = "begin"
    /\ inst[i].cls = "wifi"
    /\ bcall[i].pc = "idle"
    /\ \E changed \in BOOLEAN :
         IF changed /\ TotalEmitted < MaxEmit
         THEN /\ EnterCall(i, "push", <<WifiEvent(i, inst[i].emitted + 1)>>)
              /\ inst' = [inst EXCEPT ![i] = [@ EXCEPT !.emitted = @ + 1,
                                                       !.cstep = "push"]]
         ELSE /\ inst' = [inst EXCEPT ![i] = [@ EXCEPT !.th = "loop", !.cstep = "none"]]
              /\ UNCHANGED <<bcall, pushed>>
    /\ UNCHANGED <<events, bufLock, storeVars, handed, lost, testVars, clientVars, registry, resume, atReload,
                   daemon, running, collectors, nextInst, fileSize, ticks>>

\* WifiCollector.collect returns after its push.
WifiReturn(i) ==
    /\ ProcessAlive
    /\ inst[i].th = "collect"
    /\ inst[i].cstep = "push"
    /\ inst[i].cls = "wifi"
    /\ bcall[i].pc = "idle"
    /\ inst' = [inst EXCEPT ![i] = [@ EXCEPT !.th = "loop", !.cstep = "none"]]
    /\ UNCHANGED <<bufVars, storeVars, histVars, testVars, clientVars, registry, resume, atReload,
                   daemon, running, collectors, nextInst, fileSize, ticks>>

\* ------------------------------------------------------------------------
\* Daemon: start, flush loop, stop and reload (signals taken while the main
\* thread sleeps between two flushes)
\* ------------------------------------------------------------------------

HealthColumns == <<"timestamp", "event_type", "details">>

\* Database.log_health called from the daemon: insert_one into
\* daemon_health; an exception of batch_insert is not caught by the daemon
\* and ends the main thread.
LogHealth(kind, next) ==
    \E dbok \in EngineAnswers :
        LET rows == <<<<ticks, kind, "">>>>
            out  == BatchInsertOutcome(conn = "open", "daemon_health", HealthColumns, rows, dbok)
        IN /\ tables' = BatchInsertRows(tables, "daemon_health", HealthColumns, rows, out)
           /\ faults' = IF dbok THEN faults ELSE faults - 1
           /\ daemon' = IF Raised(out) THEN [daemon EXCEPT !.pc = "crashed"] ELSE next

AfterOpenErrorGoOn(d) == [d EXCEPT !.pc = "log_startup"]

\* Daemon.start has no try around self.db.open(): its exception leaves
\* start() and main(), and ends the process.
AfterOpenError(d) == [d EXCEPT !.pc = "crashed"]

\* Daemon.start: self.db.open() and the creation of the buffer; an error of
\* open() leaves start().
DaemonOpen ==
    /\ daemon.pc = "init"
    /\ \E ok \in BOOLEAN :
         IF ok
         THEN /\ conn' = "open"
              /\ opens' = opens + 1
              /\ tables' = ApplySchema(tables)
              /\ daemon' = [daemon EXCEPT !.pc = "log_startup"]
         ELSE /\ daemon' = AfterOpenError(daemon)
              /\ UNCHANGED <<conn, opens, tables>>
    /\ UNCHANGED <<bufVars, wcall, faults, lastSet, histVars, testVars, clientVars, registry, resume, atReload,
                   running, collectors, nextInst, inst, fileSize, ticks>>

\* Daemon.start: log_health(.., "startup", ..).
DaemonLogStartup ==
    /\ daemon.pc = "log_startup"
    /\ LogHealth("startup", [pc |-> "start_collectors", op |-> "start", k |-> 1])
    /\ UNCHANGED <<bufVars, conn, opens, wcall, lastSet, histVars, testVars, clientVars, registry, resume, atReload,
                   running, collectors, nextInst, inst, fileSize, ticks>>

\* One iteration of _start_collectors: instantiate the class, append the
\* instance to Daemon.collectors and start() it: setup(), then for a polling
\* collector clear the stop event and start the thread.
StartCollector ==
    /\ daemon.pc = "start_collectors"
    /\ daemon.k <= Len(registry)
    /\ nextInst < MaxInst
    /\ LET cls == registry[daemon.k]
           i   == nextInst + 1
       IN /\ nextInst' = i
          /\ collectors' = Append(collectors, i)
          /\ inst' = [inst EXCEPT ![i] =
                         [NoInst EXCEPT !.cls = cls,
                                        !.setups = 1,
                                        !.due = TRUE,
                                        !.offset = IF cls = "shell"
                                                   THEN ShellSetup(tables, fileSize)
                                                   ELSE 0,
                                        !.th = IF Interval(cls) > 0 THEN "loop"
                                               ELSE "none"]]
    /\ daemon' = [daemon EXCEPT !.k = @ + 1]
    /\ UNCHANGED <<bufVars, storeVars, histVars, testVars, clientVars, registry, resume, atReload, running, fileSize, ticks>>

\* Daemon.start after _start_collectors: _running = True, the handlers are
\* installed and the flush loop begins.
DaemonRun ==
    /\ daemon.pc = "start_collectors"
    /\ daemon.op = "start"
    /\ daemon.k > Len(registry)
    /\ running' = TRUE
    /\ daemon' = [pc |-> "sleep", op |-> "run", k |-> 0]
    /\ UNCHANGED <<bufVars, storeVars, histVars, testVars, clientVars, registry, resume, atReload,
                   collectors, nextInst, inst, fileSize, ticks>>

\* One iteration of _run_flush_loop, first half: sleep, then buffer.flush().
FlushTick ==
    /\ daemon.pc = "sleep"
    /\ running
    /\ ticks < MaxTicks
    /\ bcall[Main].pc = "idle"
    /\ EnterCall(Main, "flush", <<>>)
    /\ ticks' = ticks + 1
    /\ daemon' = [daemon EXCEPT !.pc = "flushing"]
    /\ UNCHANGED <<events, bufLock, storeVars, handed, lost, testVars, clientVars, registry, resume, atReload,
                   running, collectors, nextInst, inst, fileSize>>

\* One iteration of _run_flush_loop, second half: the heartbeat when
\* HEALTH_HEARTBEAT_INTERVAL seconds have passed since the last one.
FlushTickDone ==
    /\ daemon.pc = "flushing"
    /\ bcall[Main].pc = "idle"
    /\ \E due \in BOOLEAN :
        IF due
        THEN LogHealth("heartbeat", [daemon EXCEPT !.pc = "sleep"])
        ELSE /\ daemon' = [daemon EXCEPT !.pc = "sleep"]
             /\ UNCHANGED <<tables, faults>>
    /\ UNCHANGED <<bufVars, conn, opens, wcall, lastSet, histVars, testVars, clientVars, registry, resume, atReload,
                   running, collectors, nextInst, inst, fileSize, ticks>>

\* Where the flush loop can be when a signal arrives: in time.sleep, or in
\* its flush() call and the statements after it.
InterruptPoints == {"sleep", "flushing"}

\* A stop() that goes to its flush without stopping the collectors.
SigTermSkipCollectors ==
    /\ daemon.pc \in InterruptPoints
    /\ running
    /\ resume = "none"
    /\ running' = FALSE
    /\ resume' = daemon.pc
    /\ daemon' = [pc |-> "stop_collectors", op |-> "stop", k |-> Len(collectors) + 1]
    /\ UNCHANGED <<bufVars, storeVars, histVars, testVars, clientVars, registry, atReload,
                   collectors, nextInst, inst, fileSize, ticks>>

\* SIGTERM / SIGINT: _handle_signal calls stop(), which clears _running and
\* enters _stop_collectors.
SigTerm ==
    /\ daemon.pc \in InterruptPoints
    /\ running
    /\ resume = "none"
    /\ running' = FALSE
    /\ resume' = daemon.pc
    /\ daemon' = [pc |-> "stop_collectors", op |-> "stop", k |-> 1]
    /\ UNCHANGED <<bufVars, storeVars, histVars, testVars, clientVars, registry, atReload,
                   collectors, nextInst, inst, fileSize, ticks>>

\* SIGHUP: _handle_reload calls reload(), which enters _stop_collectors.
SigHup ==
    /\ daemon.pc \in InterruptPoints
    /\ running
    /\ resume = "none"
    /\ nextInst + Len(registry) <= MaxInst
    /\ resume' = daemon.pc
    /\ atReload' = {events[i].values : i \in 1..Len(events)}
    /\ daemon' = [pc |-> "stop_collectors", op |-> "reload", k |-> 1]
    /\ UNCHANGED <<bufVars, storeVars, histVars, testVars, clientVars, registry,
                   running, collectors, nextInst, inst, fileSize, ticks>>

\* BaseCollector.stop, first statement: self._stop_event.set().
StopSignal ==
    /\ daemon.pc = "stop_collectors"
    /\ daemon.k <= Len(collectors)
    /\ inst' = [inst EXCEPT ![collectors[daemon.k]].stop = TRUE]
    /\ daemon' = [daemon EXCEPT !.pc = "join"]
    /\ UNCHANGED <<bufVars, storeVars, histVars, testVars, clientVars, registry, resume, atReload,
                   running, collectors, nextInst, fileSize, ticks>>

\* The end of BaseCollector.stop: teardown() is called.
AfterJoin(c) == [c EXCEPT !.teardowns = @ + 1]

\* BaseCollector.stop: there is no live thread, or join() returns because
\* the thread ended; then teardown().
StopJoined ==
    /\ daemon.pc = "join"
    /\ inst[collectors[daemon.k]].th \in {"none", "exited"}
    /\ inst' = [inst EXCEPT ![collectors[daemon.k]] = AfterJoin(@)]
    /\ daemon' = [daemon EXCEPT !.pc = "stop_collectors", !.k = @ + 1]
    /\ UNCHANGED <<bufVars, storeVars, histVars, testVars, clientVars, registry, resume, atReload,
                   running, collectors, nextInst, fileSize, ticks>>

\* BaseCollector.stop: join(timeout=interval + 2) returns while the thread
\* is still inside a collect() call; then teardown().
StopJoinTimeout ==
    /\ daemon.pc = "join"
    /\ inst[collectors[daemon.k]].th = "collect"
    /\ inst' = [inst EXCEPT ![collectors[daemon.k]] = AfterJoin(@)]
    /\ daemon' = [daemon EXCEPT !.pc = "stop_collectors", !.k = @ + 1]
    /\ UNCHANGED <<bufVars, storeVars, histVars, testVars, clientVars, registry, resume, atReload,
                   running, collectors, nextInst, fileSize, ticks>>

\* A handler that throws the pending events away instead of flushing them.
StopCollectorsDoneDrop ==
    /\ daemon.pc = "stop_collectors"
    /\ daemon.k > Len(collectors)
    /\ bcall[Handler].pc = "idle"
    /\ collectors' = <<>>
    /\ events' = <<>>
    /\ daemon' = [daemon EXCEPT !.pc = "handler_flush"]
    /\ UNCHANGED <<bufLock, bcall, storeVars, histVars, testVars, clientVars, registry, resume, atReload,
                   running, nextInst, inst, fileSize, ticks>>

\* The end of _stop_collectors (self.collectors.clear()) and the
\* buffer.flush() that follows it in stop() and reload().
StopCollectorsDone ==
    /\ daemon.pc = "stop_collectors"
    /\ daemon.k > Len(collectors)
    /\ bcall[Handler].pc = "idle"
    /\ collectors' = <<>>
    /\ EnterCall(Handler, "flush", <<>>)
    /\ daemon' = [daemon EXCEPT !.pc = "handler_flush"]
    /\ UNCHANGED <<events, bufLock, storeVars, handed, lost, testVars, clientVars, registry, resume, atReload,
                   running, nextInst, inst, fileSize, ticks>>

\* Daemon.stop after the final flush: log_health(.., "shutdown", ..).
StopLogHealth ==
    /\ daemon.pc = "handler_flush"
    /\ daemon.op = "stop"
    /\ bcall[Handler].pc = "idle"
    /\ LogHealth("shutdown", [daemon EXCEPT !.pc = "closing"])
    /\ UNCHANGED <<bufVars, conn, opens, wcall, lastSet, histVars, testVars, clientVars, registry, resume, atReload,
                   running, collectors, nextInst, inst, fileSize, ticks>>

\* Daemon.stop: self.db.close(), then _handle_signal leaves the process with
\* sys.exit(0).
StopClose ==
    /\ daemon.pc = "closing"
    /\ conn' = "closed"
    /\ daemon' = [daemon EXCEPT !.pc = "exited"]
    /\ UNCHANGED <<bufVars, opens, faults, tables, wcall, lastSet, histVars, testVars, clientVars, registry, resume, atReload,
                   running, collectors, nextInst, inst, fileSize, ticks>>

\* Daemon.reload after the flush: the schema is applied again and
\* _start_collectors begins.
ReloadSchema ==
    /\ daemon.pc = "handler_flush"
    /\ daemon.op = "reload"
    /\ bcall[Handler].pc = "idle"
    /\ tables' = ApplySchema(tables)
    /\ daemon' = [daemon EXCEPT !.pc = "start_collectors", !.k = 1]
    /\ UNCHANGED <<bufVars, conn, opens, faults, wcall, lastSet, histVars, testVars, clientVars, registry, resume, atReload,
                   running, collectors, nextInst, inst, fileSize, ticks>>

\* Daemon.reload after _start_collectors: log_health(.., "reload"); the
\* handler returns into the flush loop.
ReloadLogHealth ==
    /\ daemon.pc = "start_collectors"
    /\ daemon.op = "reload"
    /\ daemon.k > Len(registry)
    /\ LogHealth("reload", [pc |-> resume, op |-> "run", k |-> 0])
    /\ resume' = "none"
    /\ atReload' = {}
    /\ UNCHANGED <<bufVars, conn, opens, wcall, lastSet, histVars, testVars, clientVars, registry,
                   running, collectors, nextInst, inst, fileSize, ticks>>

DaemonThreads == {Main, Handler} \cup InstIds

NextDaemon ==
    \/ HistoryAppend
    \/ DaemonOpen
    \/ DaemonLogStartup
    \/ StartCollector
    \/ DaemonRun
    \/ FlushTick
    \/ FlushTickDone
    \/ SigTerm
    \/ SigHup
    \/ StopSignal
    \/ StopJoined
    \/ StopJoinTimeout
    \/ StopCollectorsDone
    \/ StopLogHealth
    \/ StopClose
    \/ ReloadSchema
    \/ ReloadLogHealth
    \/ \E i \in InstIds : TimerElapse(i)
    \/ \E i \in InstIds : ThreadLoop(i)
    \/ \E i \in InstIds : CollectRaise(i)
    \/ \E i \in InstIds : ShellCollect(i)
    \/ \E i \in InstIds : ShellSetWatermark(i)
    \/ \E i \in InstIds : WifiCollect(i)
    \/ \E i \in InstIds : WifiReturn(i)
    \/ \E t \in DaemonThreads : BufAppend(t)
    \/ \E t \in DaemonThreads : BufFlushBegin(t)
    \/ \E t \in DaemonThreads : BufInsert(t)
    \/ \E t \in DaemonThreads : BufRelease(t)

\* ------------------------------------------------------------------------
\* Transcripts: parse_transcript of collectors/claude.py
\* ------------------------------------------------------------------------

\* Lines the writer appends to the transcript.
MaxLines == 3

\* Calls of parse_transcript.
MaxParses == 3

Newline == "\n"

Whitespace == {" ", Newline}

\* JSON objects of the expected shape: a user entry ("u"), an assistant
\* entry with a text block and a tool_use block ("a"), a
\* file-history-snapshot entry ("s").
GoodKinds == {"u", "a", "s"}

\* JSON objects of another shape: a user entry whose "message" is a string
\* ("m"), a progress entry whose "data" is a list ("d").
BadShapeKinds == {"m", "d"}

ObjectKinds == GoodKinds \cup BadShapeKinds

\* json.dumps(entry): the bytes of the entry of kind k with timestamp ts.
\* The model writes an object as four bytes.
EntryText(k, ts) == <<"{", k, ts, "}">>

\* Other line contents: empty, blank, a JSON array, a JSON number, and text
\* that is not JSON.
GarbageTexts == {<<>>, <<" ">>, <<"[", "]">>, <<"7">>, <<"{", "u">>}

\* json.loads(text): the decoded value, or JSONDecodeError.
JsonLoads(text) ==
    IF /\ Len(text) = 4
       /\ text[1] = "{"
       /\ text[2] \in ObjectKinds
       /\ text[3] \in SeqToSet(DigitChars)
       /\ text[4] = "}"
    THEN [json |-> "object", kind |-> text[2], ts |-> text[3]]
    ELSE IF text = <<"[", "]">> THEN [json |-> "array", kind |-> "", ts |-> ""]
    ELSE IF text = <<"7">> THEN [json |-> "number", kind |-> "", ts |-> ""]
    ELSE [json |-> "JSONDecodeError", kind |-> "", ts |-> ""]

\* str.strip().
RECURSIVE Strip(_)
Strip(text) ==
    IF text = <<>> THEN text
    ELSE IF Head(text) \in Whitespace THEN Strip(Tail(text))
    ELSE IF text[Len(text)] \in Whitespace THEN Strip(SubSeq(text, 1, Len(text) - 1))
    ELSE text

\* `for line in f`: the bytes up to and including each newline, and the
\* bytes after the last newline when there are any.
RECURSIVE Lines(_)
Lines(bytes) ==
    IF bytes = <<>> THEN <<>>
    ELSE LET nl == {i \in 1..Len(bytes) : bytes[i] = Newline}
             n  == IF nl = {} THEN Len(bytes)
                   ELSE CHOOSE i \in nl : \A j \in nl : i <= j
         IN <<SubSeq(bytes, 1, n)>> \o Lines(SubSeq(bytes, n + 1, Len(bytes)))

\* The events parse_transcript appends for an entry of the expected shape.
EventsOfKind(k, ts) ==
    CASE k = "u" -> <<[message_type |-> "user", timestamp |-> ts]>>
      [] k = "a" -> <<[message_type |-> "assistant_text", timestamp |-> ts],
                      [message_type |-> "tool_use:Bash", timestamp |-> ts]>>
      [] OTHER   -> <<>>

\* The body of the loop for a decoded value: entry.get, msg.get and
\* data.get raise AttributeError on a value that is not a dict, and nothing
\* in the loop catches it.
EntryEvents(entry) ==
    IF entry.json # "object" THEN [raised |-> TRUE, events |-> <<>>]
    ELSE IF entry.kind \in BadShapeKinds THEN [raised |-> TRUE, events |-> <<>>]
    ELSE [raised |-> FALSE, events |-> EventsOfKind(entry.kind, entry.ts)]

\* The loop of parse_transcript over the lines, up to the first exception.
RECURSIVE ParseLines(_, _)
ParseLines(lines, acc) ==
    IF lines = <<>> THEN [raised |-> FALSE, events |-> acc]
    ELSE LET text  == Strip(Head(lines))
             entry == JsonLoads(text)
         IN IF text = <<>> \/ entry.json = "JSONDecodeError"
            THEN ParseLines(Tail(lines), acc)
            ELSE LET r == EntryEvents(entry)
                 IN IF r.raised THEN [raised |-> TRUE, events |-> acc]
                    ELSE ParseLines(Tail(lines), acc \o r.events)

\* A parse_transcript that returns the offset it was given.
FinalOffsetUnmoved(file, since_offset) == since_offset

\* final_offset = f.tell() after the loop has read the file to its end.
FinalOffset(file, since_offset) == Len(file)

\* parse_transcript(path, since_offset): the events and the new offset, or
\* an exception.
parse_transcript(file, since_offset) ==
    LET r == ParseLines(Lines(SubSeq(file, since_offset + 1, Len(file))), <<>>)
    IN [raised |-> r.raised, events |-> r.events,
        offset |-> FinalOffset(file, since_offset)]

NewTranscript ==
    [file |-> <<>>, pending |-> <<>>, written |-> <<>>, lines |-> 0, clean |-> TRUE,
     offset |-> 0, events |-> <<>>, last |-> <<>>, raised |-> FALSE,
     calls |-> 0, seenLen |-> 0]

\* The timestamp the writer gives its next entry.
NextTs == DigitChars[transcript.lines + 1]

\* The writer appends one line with its newline in one write: an entry or
\* something else.
WriteLine ==
    /\ transcript.pending = <<>>
    /\ transcript.lines < MaxLines
    /\ \E text \in {EntryText(k, NextTs) : k \in ObjectKinds} \cup GarbageTexts :
         LET good == Len(text) = 4 /\ text[2] \in GoodKinds
             file == transcript.file \o text \o <<Newline>>
         IN transcript' =
              [transcript EXCEPT
                 !.file = file,
                 !.lines = @ + 1,
                 !.clean = @ /\ good,
                 !.written = IF good
                             THEN Append(@, [kind |-> text[2], ts |-> NextTs, end |-> Len(file)])
                             ELSE @]
    /\ UNCHANGED <<bufVars, storeVars, histVars, testVars, batch, txn, lc, cc, probe, boot, sync, net, daemonVars>>

\* The writer's entry reaches the file in two writes: first the n leading
\* bytes.
WritePartial ==
    /\ transcript.pending = <<>>
    /\ transcript.lines < MaxLines
    /\ \E k \in GoodKinds, n \in 1..3 :
         LET text == EntryText(k, NextTs)
         IN transcript' =
              [transcript EXCEPT
                 !.file = @ \o SubSeq(text, 1, n),
                 !.pending = SubSeq(text, n + 1, 4) \o <<Newline>>,
                 !.lines = @ + 1,
                 !.clean = FALSE,
                 !.written = Append(@, [kind |-> k, ts |-> NextTs,
                                        end |-> Len(transcript.file) + 5])]
    /\ UNCHANGED <<bufVars, storeVars, histVars, testVars, batch, txn, lc, cc, probe, boot, sync, net, daemonVars>>

\* The second write: the rest of the entry and its newline.
WriteRest ==
    /\ transcript.pending # <<>>
    /\ transcript' = [transcript EXCEPT !.file = @ \o transcript.pending,
                                        !.pending = <<>>]
    /\ UNCHANGED <<bufVars, storeVars, histVars, testVars, batch, txn, lc, cc, probe, boot, sync, net, daemonVars>>

\* The reader calls parse_transcript from the offset the last call returned
\* and keeps the new offset when the call returns.
ParseCall ==
    /\ transcript.calls < MaxParses
    /\ LET r == parse_transcript(transcript.file, transcript.offset)
       IN transcript' =
            IF r.raised
            THEN [transcript EXCEPT !.raised = TRUE, !.last = <<>>,
                                    !.calls = @ + 1,
                                    !.seenLen = Len(transcript.file)]
            ELSE [transcript EXCEPT !.raised = FALSE, !.last = r.events,
                                    !.events = @ \o r.events,
                                    !.offset = r.offset,
                                    !.calls = @ + 1,
                                    !.seenLen = Len(transcript.file)]
    /\ UNCHANGED <<bufVars, storeVars, histVars, testVars, batch, txn, lc, cc, probe, boot, sync, net, daemonVars>>

NextTranscript ==
    \/ WriteLine
    \/ WritePartial
    \/ WriteRest
    \/ ParseCall

\* ------------------------------------------------------------------------
\* Direct calls of Database.batch_insert (tests/test_db.py, TestBatchInsert)
\* ------------------------------------------------------------------------

MaxBatchCalls == 3

IdleBatch == [calls |-> 0, table |-> "", columns |-> <<>>, rows |-> <<>>,
              outcome |-> "none"]

BatchTables == {"wifi_events", "drop_table_users"}

BatchColumns == {<<"timestamp", "ssid", "bssid">>, <<"x">>}

BatchRowLists == {<<>>, <<<<1>>>>, <<<<1, "a", "b">>, <<2, "a", "b">>>>}

\* One call batch_insert(table, columns, rows).
ClientBatchInsert ==
    /\ batch.calls < MaxBatchCalls
    /\ \E table \in BatchTables, columns \in BatchColumns, rows \in BatchRowLists,
          dbok \in EngineAnswers :
         LET out == BatchInsertOutcome(conn = "open", table, columns, rows, dbok)
         IN /\ tables' = IF table \in DOMAIN tables
                         THEN BatchInsertRows(tables, table, columns, rows, out)
                         ELSE tables
            /\ faults' = IF dbok THEN faults ELSE faults - 1
            /\ batch' = [calls |-> batch.calls + 1, table |-> table,
                         columns |-> columns, rows |-> rows, outcome |-> out]
    /\ UNCHANGED <<bufVars, conn, opens, wcall, lastSet, histVars, testVars,
                   transcript, txn, lc, cc, probe, boot, sync, net, daemonVars>>

NextBatch ==
    \/ DbOpen
    \/ DbClose
    \/ ClientBatchInsert

\* ------------------------------------------------------------------------
\* The store connection: Database._lock, the transaction of batch_insert,
\* count(), and the schema script of Daemon.reload
\* ------------------------------------------------------------------------

\* Calls of batch_insert and count, runs of reload's script, and process
\* crashes.
MaxTxCalls == 2

MaxScripts == 1

MaxCrashes == 1

\* Threads that use the store: the main thread and a collector thread that
\* flushes the buffer.
ConnThreads == {Main, 1}

IdleTx == [pc |-> "idle", op |-> "none", table |-> "", columns |-> <<>>,
           rows |-> <<>>, k |-> 0, before |-> <<>>, h |-> 0]

IdleTxn == [lock |-> NoThread, pend |-> <<>>, call |-> [t \in ConnThreads |-> IdleTx],
            calls |-> 0, scripts |-> 0, crashes |-> 0,
            outcome |-> "none", result |-> 0]

\* Row lists of the callers: complete rows, and a batch whose second row has
\* the wrong number of values.
TxRowLists == {<<<<1, "a", "b">>>>,
               <<<<1, "a", "b">>, <<2, "a", "b">>>>,
               <<<<1, "a", "b">>, <<2>>>>}

\* Positions at which a thread is executing a call on the connection.
UsingPcs == {"rows", "count", "script"}

Using(t) == txn.call[t].pc \in UsingPcs

\* The rows of the connection's open transaction added to the tables: what
\* a statement on this connection sees, and what a COMMIT makes durable.
RECURSIVE WithPending(_, _)
WithPending(db, pend) ==
    IF pend = <<>> THEN db
    ELSE WithPending([db EXCEPT ![Head(pend).table] =
                         Append(@, [columns |-> Head(pend).columns,
                                    values |-> Head(pend).values])],
                     Tail(pend))

\* batch_insert up to `with self._lock`: the empty batch returns, an unknown
\* table raises ValueError, a closed store raises RuntimeError in
\* _ensure_conn.
TxBatchEnter(t) ==
    /\ txn.call[t].pc = "idle"
    /\ txn.calls < MaxTxCalls
    /\ \E table \in BatchTables, rows \in TxRowLists \cup {<<>>} :
         LET columns == <<"timestamp", "ssid", "bssid">>
             early   == BatchInsertOutcome(conn = "open", table, columns, rows, TRUE)
         IN txn' = IF early \in {"noop", "ValueError", "RuntimeError"}
                   THEN [txn EXCEPT !.calls = @ + 1, !.outcome = early]
                   ELSE [txn EXCEPT !.calls = @ + 1,
                                    !.call[t] = [IdleTx EXCEPT !.pc = "acquire",
                                                               !.op = "batch_insert",
                                                               !.table = table,
                                                               !.columns = columns,
                                                               !.rows = rows,
                                                               !.h = opens]]
    /\ UNCHANGED <<bufVars, storeVars, histVars, testVars, batch, transcript, lc, cc, probe, boot, sync, net, daemonVars>>

\* count(table) up to `with self._lock`.
TxCountEnter(t) ==
    /\ txn.call[t].pc = "idle"
    /\ txn.calls < MaxTxCalls
    /\ conn = "open"
    /\ txn' = [txn EXCEPT !.calls = @ + 1,
                          !.call[t] = [IdleTx EXCEPT !.pc = "acquire", !.op = "count",
                                                     !.table = "wifi_events",
                                                     !.h = opens]]
    /\ UNCHANGED <<bufVars, storeVars, histVars, testVars, batch, transcript, lc, cc, probe, boot, sync, net, daemonVars>>

\* threading.Lock: acquire blocks while another thread holds it.
TxLockFree(lock) == lock = NoThread

\* `with self._lock:` is entered.
TxAcquire(t) ==
    /\ txn.call[t].pc = "acquire"
    /\ TxLockFree(txn.lock)
    /\ txn' = [txn EXCEPT !.lock = t,
                          !.call[t] = [@ EXCEPT !.pc = IF txn.call[t].op = "count"
                                                       THEN "count" ELSE "rows",
                                                !.before = tables]]
    /\ UNCHANGED <<bufVars, storeVars, histVars, testVars, batch, transcript, lc, cc, probe, boot, sync, net, daemonVars>>

\* executemany, one row at a time: the row is inserted into the open
\* transaction, or the engine or the binding of the row raises.
TxRow(t) ==
    /\ txn.call[t].pc = "rows"
    /\ LET c == txn.call[t]
       IN /\ c.k < Len(c.rows)
          /\ \E dbok \in EngineAnswers :
               LET row  == c.rows[c.k + 1]
                   live == conn = "open" /\ opens = c.h
                   ok   == live /\ dbok /\ Len(row) = Len(c.columns)
               IN /\ faults' = IF dbok THEN faults ELSE faults - 1
                  /\ txn' = IF ok
                            THEN [txn EXCEPT
                                    !.pend = Append(@, [table |-> c.table,
                                                        columns |-> c.columns,
                                                        values |-> row]),
                                    !.call[t] = [@ EXCEPT
                                        !.k = @ + 1,
                                        !.pc = IF c.k + 1 = Len(c.rows) THEN "exit"
                                               ELSE "rows"]]
                            ELSE [txn EXCEPT !.call[t] = [@ EXCEPT !.pc = "rollback"]]
    /\ UNCHANGED <<bufVars, conn, opens, tables, wcall, lastSet, histVars, testVars,
                   batch, transcript, lc, cc, probe, boot, sync, net, daemonVars>>

\* `with conn:` left by an exception: the connection rolls the open
\* transaction back.
TxAfterError(db, pend) == db

\* The end of `with conn:` and of `with self._lock:` in batch_insert: commit
\* after executemany returned, rollback after it raised.
TxExit(t) ==
    /\ txn.call[t].pc \in {"exit", "rollback"}
    /\ LET c == txn.call[t]
       IN /\ tables' = IF c.pc = "exit" THEN WithPending(tables, txn.pend)
                       ELSE TxAfterError(tables, txn.pend)
          /\ txn' = [txn EXCEPT !.pend = <<>>, !.lock = NoThread,
                                !.outcome = IF c.pc = "exit" THEN "ok" ELSE "sqlite3.Error",
                                !.call[t] = IdleTx]
    /\ UNCHANGED <<bufVars, conn, opens, faults, wcall, lastSet, histVars, testVars,
                   batch, transcript, lc, cc, probe, boot, sync, net, daemonVars>>

\* SELECT COUNT(*) under the lock, and the release of the lock.
TxCount(t) ==
    /\ txn.call[t].pc = "count"
    /\ txn' = [txn EXCEPT !.lock = NoThread,
                          !.outcome = "ok",
                          !.result = Len(WithPending(tables, txn.pend)[txn.call[t].table]),
                          !.call[t] = IdleTx]
    /\ UNCHANGED <<bufVars, storeVars, histVars, testVars, batch, transcript, lc, cc, probe, boot, sync, net, daemonVars>>

\* Daemon.reload: self.db._ensure_conn().executescript(schema) begins; the
\* lock of the store is not taken.
TxScriptEnter ==
    /\ txn.call[Main].pc = "idle"
    /\ txn.scripts < MaxScripts
    /\ conn = "open"
    /\ txn' = [txn EXCEPT !.scripts = @ + 1,
                          !.call[Main] = [IdleTx EXCEPT !.pc = "script", !.op = "reload",
                                                        !.h = opens]]
    /\ UNCHANGED <<bufVars, storeVars, histVars, testVars, batch, transcript, lc, cc, probe, boot, sync, net, daemonVars>>

\* executescript: a COMMIT of the connection's pending transaction first,
\* then the CREATE ... IF NOT EXISTS statements; then commit().
TxScript ==
    /\ txn.call[Main].pc = "script"
    /\ tables' = ApplySchema(WithPending(tables, txn.pend))
    /\ txn' = [txn EXCEPT !.pend = <<>>, !.call[Main] = IdleTx]
    /\ UNCHANGED <<bufVars, conn, opens, faults, wcall, lastSet, histVars, testVars,
                   batch, transcript, lc, cc, probe, boot, sync, net, daemonVars>>

\* The process is killed: the open transaction is not in the file, the
\* threads and the lock are gone.
TxCrash ==
    /\ conn = "open"
    /\ txn.crashes < MaxCrashes
    /\ conn' = "closed"
    /\ txn' = [txn EXCEPT !.crashes = @ + 1, !.pend = <<>>, !.lock = NoThread,
                          !.outcome = "crash",
                          !.call = [t \in ConnThreads |-> IdleTx]]
    /\ UNCHANGED <<bufVars, opens, faults, tables, wcall, lastSet, histVars, testVars,
                   batch, transcript, lc, cc, probe, boot, sync, net, daemonVars>>

NextConn ==
    \/ DbOpen
    \/ \E t \in ConnThreads : TxBatchEnter(t)
    \/ \E t \in ConnThreads : TxCountEnter(t)
    \/ \E t \in ConnThreads : TxAcquire(t)
    \/ \E t \in ConnThreads : TxRow(t)
    \/ \E t \in ConnThreads : TxExit(t)
    \/ \E t \in ConnThreads : TxCount(t)
    \/ TxScriptEnter
    \/ TxScript
    \/ TxCrash

\* ------------------------------------------------------------------------
\* One collector object: BaseCollector.start / stop, and the overrides of
\* FilesystemCollector
\* ------------------------------------------------------------------------

\* Calls of collect() by the polling thread, and events delivered by the
\* FSEvents callback.
MaxCollects == 8

\* Classes of the object: a polling collector, a subclass with interval = 0
\* that inherits start() and stop(), and FilesystemCollector (interval = 0,
\* its own start() and stop()).
LcClasses == {"shell", "push", "filesystem"}

\* The object after __init__; paths tells whether config.FS_WATCH_PATHS
\* names a path.
NewCollector(cls, paths) ==
    [cls |-> cls, paths |-> paths, pc |-> "new", stop |-> FALSE, th |-> "none",
     polling |-> FALSE, setups |-> 0, teardowns |-> 0, collects |-> 0, starts |-> 0,
     stops |-> 0, delivered |-> 0]

\* start(): setup(); BaseCollector returns for interval <= 0 and otherwise
\* clears the stop event and starts the _run_loop thread;
\* FilesystemCollector returns when there is no watch path and otherwise
\* replaces the stop event and starts the _run_fsevents thread.
StartObject(c) ==
    LET d == [c EXCEPT !.setups = @ + 1, !.starts = @ + 1, !.pc = "started"]
    IN IF c.cls = "filesystem"
       THEN IF c.paths THEN [d EXCEPT !.stop = FALSE, !.th = "watch"]
            ELSE [d EXCEPT !.th = "none"]
       ELSE IF Interval(c.cls) <= 0 THEN d
       ELSE [d EXCEPT !.stop = FALSE, !.th = "loop", !.polling = TRUE]

\* The end of stop(): BaseCollector.stop calls teardown() after the join;
\* FilesystemCollector.stop returns after the join.
StopObjectEnd(c) ==
    IF c.cls = "filesystem" THEN [c EXCEPT !.pc = "stopped", !.stops = @ + 1]
    ELSE [c EXCEPT !.pc = "stopped", !.stops = @ + 1, !.teardowns = @ + 1]

LcStart ==
    /\ lc.pc = "new"
    /\ lc' = StartObject(lc)
    /\ UNCHANGED <<bufVars, storeVars, histVars, testVars, batch, transcript, txn, cc, probe, boot, sync, net, daemonVars>>

\* _run_loop: the thread ends when the stop event is set and calls
\* collect() otherwise.
LcLoop ==
    /\ lc.th = "loop"
    /\ lc.stop \/ lc.collects < MaxCollects
    /\ lc' = IF lc.stop THEN [lc EXCEPT !.th = "exited"]
             ELSE [lc EXCEPT !.th = "collect", !.collects = @ + 1]
    /\ UNCHANGED <<bufVars, storeVars, histVars, testVars, batch, transcript, txn, cc, probe, boot, sync, net, daemonVars>>

\* collect() returns or raises into _run_loop.
LcCollectEnd ==
    /\ lc.th = "collect"
    /\ lc' = [lc EXCEPT !.th = "loop"]
    /\ UNCHANGED <<bufVars, storeVars, histVars, testVars, batch, transcript, txn, cc, probe, boot, sync, net, daemonVars>>

\* _run_fsevents: the callback of the stream delivers a file event.
LcWatchEvent ==
    /\ lc.th = "watch"
    /\ lc.delivered < MaxCollects
    /\ lc' = [lc EXCEPT !.delivered = @ + 1]
    /\ UNCHANGED <<bufVars, storeVars, histVars, testVars, batch, transcript, txn, cc, probe, boot, sync, net, daemonVars>>

\* _run_fsevents: the run loop ends when the stop event is set.
LcWatchEnd ==
    /\ lc.th = "watch"
    /\ lc.stop
    /\ lc' = [lc EXCEPT !.th = "exited"]
    /\ UNCHANGED <<bufVars, storeVars, histVars, testVars, batch, transcript, txn, cc, probe, boot, sync, net, daemonVars>>

\* stop(): the stop event is set.
LcStop ==
    /\ lc.pc = "started"
    /\ lc' = [lc EXCEPT !.stop = TRUE, !.pc = "join"]
    /\ UNCHANGED <<bufVars, storeVars, histVars, testVars, batch, transcript, txn, cc, probe, boot, sync, net, daemonVars>>

\* stop(): there is no live thread, or join() returns because the thread
\* ended.
LcJoined ==
    /\ lc.pc = "join"
    /\ lc.th \in {"none", "exited"}
    /\ lc' = StopObjectEnd(lc)
    /\ UNCHANGED <<bufVars, storeVars, histVars, testVars, batch, transcript, txn, cc, probe, boot, sync, net, daemonVars>>

\* stop(): join(timeout) returns while the thread is inside collect().
LcJoinTimeout ==
    /\ lc.pc = "join"
    /\ lc.th = "collect"
    /\ lc' = StopObjectEnd(lc)
    /\ UNCHANGED <<bufVars, storeVars, histVars, testVars, batch, transcript, txn, cc, probe, boot, sync, net, daemonVars>>

NextLifecycle ==
    \/ LcStart
    \/ LcLoop
    \/ LcCollectEnd
    \/ LcWatchEvent
    \/ LcWatchEnd
    \/ LcStop
    \/ LcJoined
    \/ LcJoinTimeout

\* ------------------------------------------------------------------------
\* ClaudeCollector.collect on one transcript file (tests/test_claude.py,
\* TestClaudeCollector)
\* ------------------------------------------------------------------------

\* Entries appended to the transcript, ticks of the clock that stamps the
\* file's modification time, and calls of collect().
MaxEntries == 3

MaxClock == 3

MaxCcCollects == 3

\* _file_state has no entry for the path.
NoFileState == [known |-> FALSE, mtime |-> 0, offset |-> 0]

\* json.dumps(self._file_state) for the one path: "{}" or the path with its
\* [mtime, offset] pair.
JsonDumpsState(st) ==
    IF ~st.known THEN <<"{", "}">>
    ELSE <<"{">> \o Str(st.mtime) \o <<",">> \o Str(st.offset) \o <<"}">>

\* The collector after __init__ and setup() with no stored watermark, an
\* existing transcript of n0 complete entries written at time 1, and the
\* clock.
NewClaude(n0) ==
    LET text == [i \in 1..n0 |-> EntryText("u", DigitChars[i]) \o <<Newline>>]
        file == IF n0 = 0 THEN <<>> ELSE IF n0 = 1 THEN text[1] ELSE text[1] \o text[2]
    IN [file |-> file, n |-> n0, clock |-> 1, mtime |-> 1,
        initialized |-> FALSE, state |-> NoFileState, wm |-> None,
        last |-> <<>>, first |-> FALSE, since |-> <<>>, collects |-> 0]

\* The session appends one complete entry; the file's modification time
\* becomes the current time.
CcAppend ==
    /\ cc.n < MaxEntries
    /\ \E k \in GoodKinds :
         LET ts == DigitChars[cc.n + 1]
         IN cc' = [cc EXCEPT !.file = @ \o EntryText(k, ts) \o <<Newline>>,
                             !.n = @ + 1,
                             !.mtime = cc.clock,
                             !.since = Append(@, [kind |-> k, ts |-> ts])]
    /\ UNCHANGED <<bufVars, storeVars, histVars, testVars, batch, transcript, txn, lc, probe, boot, sync, net, daemonVars>>

\* Time passes by one unit of the file system's timestamps.
CcTick ==
    /\ cc.clock < MaxClock
    /\ cc' = [cc EXCEPT !.clock = @ + 1]
    /\ UNCHANGED <<bufVars, storeVars, histVars, testVars, batch, transcript, txn, lc, probe, boot, sync, net, daemonVars>>

\* `if current_mtime <= prev_mtime: continue`.
FileChanged(current_mtime, prev_mtime) == current_mtime > prev_mtime

\* What collect() does with the collector c: the first run indexes the file
\* and stores the state; a later run parses the file from the offset of its
\* state when its modification time is newer, and stores the state when
\* there are events.
ClaudeCollect(c) ==
    LET exists == c.file # <<>>
    IN IF ~c.initialized
       THEN LET st == IF exists
                      THEN [known |-> TRUE, mtime |-> c.mtime, offset |-> Len(c.file)]
                      ELSE c.state
            IN [c EXCEPT !.state = st, !.wm = JsonDumpsState(st), !.initialized = TRUE,
                         !.last = <<>>, !.first = TRUE]
       ELSE IF ~exists \/ ~FileChanged(c.mtime, c.state.mtime)
       THEN [c EXCEPT !.last = <<>>, !.first = FALSE]
       ELSE LET r  == parse_transcript(c.file, c.state.offset)
                st == [known |-> TRUE, mtime |-> c.mtime, offset |-> r.offset]
            IN [c EXCEPT !.state = st,
                         !.wm = IF r.events # <<>> THEN JsonDumpsState(st) ELSE @,
                         !.last = r.events, !.first = FALSE]

\* One call of collect().
CcCollect ==
    /\ cc.collects < MaxCcCollects
    /\ cc' = [ClaudeCollect(cc) EXCEPT !.collects = @ + 1, !.since = <<>>]
    /\ UNCHANGED <<bufVars, storeVars, histVars, testVars, batch, transcript, txn, lc, probe, boot, sync, net, daemonVars>>

NextClaude ==
    \/ CcAppend
    \/ CcTick
    \/ CcCollect

\* ------------------------------------------------------------------------
\* The pure parsers: attributedBody text and lsof output
\* ------------------------------------------------------------------------

\* A bytes object is a sequence of numbers 0..255, a str the sequence of its
\* code points (lsof text: of its characters).  Positions are counted from 0
\* as in the code.

\* marker = b"NSString"
Marker == <<78, 83, 83, 116, 114, 105, 110, 103>>

\* b"\x01+", the end of the type tag
Plus == <<1, 43>>

\* U+FFFD, what errors="replace" puts for a byte that cannot be decoded.
ReplacementChar == 65533

\* bytes.find(pat, start): the lowest position >= start where pat occurs,
\* or -1.
Find(blob, pat, start) ==
    LET hits == {i \in start..(Len(blob) - Len(pat)) :
                     SubSeq(blob, i + 1, i + Len(pat)) = pat}
    IN IF hits = {} THEN -1 ELSE CHOOSE i \in hits : \A j \in hits : i <= j

\* blob[a:b]: a slice ends where the object ends.
Slice(blob, a, b) ==
    SubSeq(blob, a + 1, IF b < Len(blob) THEN b ELSE Len(blob))

\* str.encode("utf-8") for code points below U+0800.
RECURSIVE Utf8Encode(_)
Utf8Encode(s) ==
    IF s = <<>> THEN <<>>
    ELSE (IF s[1] < 128 THEN <<s[1]>>
          ELSE <<192 + (s[1] \div 64), 128 + (s[1] % 64)>>) \o Utf8Encode(Tail(s))

\* bytes.decode("utf-8", errors="replace") for bytes below 0xE0: an ASCII
\* byte is itself, a lead byte 0xC2..0xDF with a continuation byte is one
\* code point, any other byte becomes U+FFFD.
RECURSIVE Utf8Decode(_)
Utf8Decode(b) ==
    IF b = <<>> THEN <<>>
    ELSE IF b[1] < 128 THEN <<b[1]>> \o Utf8Decode(Tail(b))
    ELSE IF b[1] \in 194..223 /\ Len(b) >= 2 /\ b[2] \in 128..191
    THEN <<(b[1] - 192) * 64 + (b[2] - 128)>> \o Utf8Decode(SubSeq(b, 3, Len(b)))
    ELSE <<ReplacementChar>> \o Utf8Decode(Tail(b))

LengthOffsetAtPlus(plus_idx) == plus_idx + 1

\* length_offset = plus_idx + 2
LengthOffset(plus_idx) == plus_idx + 2

\* extract_attributed_body_text(blob).  Nothing in the body can raise for a
\* bytes argument, and an exception would be turned into "".
extract_attributed_body_text(blob) ==
    IF blob = <<>> THEN <<>>
    ELSE LET idx == Find(blob, Marker, 0)
         IN IF idx = -1 THEN <<>>
            ELSE LET search_start == idx + Len(Marker)
                     plus_idx == Find(blob, Plus, search_start)
                 IN IF plus_idx = -1 THEN <<>>
                    ELSE LET length_offset == LengthOffset(plus_idx)
                         IN IF length_offset >= Len(blob) THEN <<>>
                            ELSE LET text_len == blob[length_offset + 1]
                                     text_start == length_offset + 1
                                     text_bytes == Slice(blob, text_start,
                                                         text_start + text_len)
                                 IN Utf8Decode(text_bytes)

\* MessagesCollector's copy of the function: the same statements.
extract_text_from_attributed_body(blob) == extract_attributed_body_text(blob)

\* The blobs handed to the extractor.
MaxPieces == 2
BlobPieces == {<<0>>, <<78, 83>>, Marker, Plus, <<2, 104>>}
Prefixes == UNION {[1..n -> BlobPieces] : n \in 0..MaxPieces}
Suffixes == {<<>>, <<0>>, <<104>>, Marker \o Plus \o <<1, 104>>}
TypeTags == {Plus, <<1, 148, 132, 1, 43>>}
Strings == {<<>>, <<104>>, <<104, 105>>, <<233>>, <<99, 233, 43>>, <<1, 43, 104>>}

RECURSIVE Concat(_)
Concat(ss) == IF ss = <<>> THEN <<>> ELSE ss[1] \o Concat(Tail(ss))

\* _make_blob(text), with the prefix, type tag and suffix left open.
MakeBlob(prefix, tag, s, suffix) ==
    prefix \o Marker \o tag \o <<Len(Utf8Encode(s))>> \o Utf8Encode(s) \o suffix

\* Blobs whose length byte announces more bytes than follow it.
TruncatedBlobs ==
    {[blob |-> p \o Marker \o tag \o <<len>> \o rest, declared |-> len,
      follow |-> Len(rest)] :
        p \in {<<>>, <<0>>}, tag \in TypeTags, len \in {1, 2, 20},
        rest \in {<<>>, <<104>>, <<195>>, <<115, 104, 111, 114, 116>>}}

\* Blobs without the marker.
UnmarkedBlobs ==
    {<<>>, <<0, 1, 2, 3>>, Plus \o <<1, 104>>, <<78, 83, 83>> \o Plus \o <<1, 104>>,
     SubSeq(Marker, 1, 7) \o <<0>> \o Plus \o <<1, 104>>}

NoProbe == [fn |-> "none", pc |-> "done"]

ExtractProbes ==
    {[fn |-> "extract", kind |-> "built", pc |-> "ready", via |-> "none",
      blob |-> MakeBlob(Concat(p), tag, s, sfx), prefix |-> Concat(p), s |-> s,
      suffix |-> sfx, declared |-> Len(Utf8Encode(s)), follow |-> Len(Utf8Encode(s)) + Len(sfx),
      out |-> <<>>, raised |-> FALSE] :
        p \in Prefixes, tag \in TypeTags, s \in Strings, sfx \in Suffixes}
    \cup
    {[fn |-> "extract", kind |-> "truncated", pc |-> "ready", via |-> "none",
      blob |-> b.blob, prefix |-> <<>>, s |-> <<>>, suffix |-> <<>>,
      declared |-> b.declared, follow |-> b.follow,
      out |-> <<>>, raised |-> FALSE] : b \in {x \in TruncatedBlobs : x.follow < x.declared}}
    \cup
    {[fn |-> "extract", kind |-> "unmarked", pc |-> "ready", via |-> "none",
      blob |-> b, prefix |-> <<>>, s |-> <<>>, suffix |-> <<>>,
      declared |-> 0, follow |-> 0,
      out |-> <<>>, raised |-> FALSE] : b \in UnmarkedBlobs}

\* One call of _python_parsers.extract_attributed_body_text.
ExtractPython ==
    /\ probe.fn = "extract"
    /\ probe.pc = "ready"
    /\ probe' = [probe EXCEPT !.pc = "done", !.via = "python",
                              !.out = extract_attributed_body_text(probe.blob)]
    /\ UNCHANGED <<bufVars, storeVars, histVars, testVars, batch, transcript, txn, lc, cc, boot, sync, net, daemonVars>>

\* One call of messages._extract_text_from_attributed_body.
ExtractCollector ==
    /\ probe.fn = "extract"
    /\ probe.pc = "ready"
    /\ probe' = [probe EXCEPT !.pc = "done", !.via = "collector",
                              !.out = extract_text_from_attributed_body(probe.blob)]
    /\ UNCHANGED <<bufVars, storeVars, histVars, testVars, batch, transcript, txn, lc, cc, boot, sync, net, daemonVars>>

\* Characters of lsof text are one-character strings.
Spaces == {" ", "\t", "\r"}

Digits == {DigitChars[i] : i \in 1..10}

\* \d+
AllDigits(w) == w # <<>> /\ \A i \in 1..Len(w) : w[i] \in Digits

\* str.split(sep) for a one-character separator.
RECURSIVE SplitOn(_, _)
SplitOn(text, sep) ==
    LET at == {i \in 1..Len(text) : text[i] = sep}
    IN IF at = {} THEN <<text>>
       ELSE LET i == CHOOSE x \in at : \A y \in at : x <= y
            IN <<SubSeq(text, 1, i - 1)>> \o SplitOn(SubSeq(text, i + 1, Len(text)), sep)

\* The runs of \S+ of a line, which the \s+ of the pattern separate.
RECURSIVE Fields(_)
Fields(line) ==
    IF line = <<>> THEN <<>>
    ELSE IF line[1] \in Spaces THEN Fields(Tail(line))
    ELSE LET stops == {i \in 1..Len(line) : line[i] \in Spaces}
             n == IF stops = {} THEN Len(line)
                  ELSE (CHOOSE x \in stops : \A y \in stops : x <= y) - 1
         IN <<SubSeq(line, 1, n)>> \o Fields(SubSeq(line, n + 1, Len(line)))

StartsWith(w, lit) == Len(w) >= Len(lit) /\ SubSeq(w, 1, Len(lit)) = lit

\* \d+\.\d+\.\d+\.\d+
DottedQuad(w) ==
    LET parts == SplitOn(w, ".")
    IN Len(parts) = 4 /\ \A i \in 1..4 : AllDigits(parts[i])

\* \S+->(\d+\.\d+\.\d+\.\d+):(\d+) on one field: the places of "->" and ":"
\* for which the field has this form.
RemoteSplits(name) ==
    {<<k, c>> \in (2..Len(name)) \X (1..Len(name)) :
        /\ k + 1 < c /\ c < Len(name)
        /\ name[k] = "-" /\ name[k + 1] = ">" /\ name[c] = ":"
        /\ DottedQuad(SubSeq(name, k + 2, c - 1))
        /\ AllDigits(SubSeq(name, c + 1, Len(name)))}

AnyState(w) == TRUE

\* \(ESTABLISHED\): the pattern ends here, what follows is not looked at.
StateIs(w) == StartsWith(w, <<"(", "E", "S", "T", "A", "B", "L", "I", "S", "H", "E", "D", ")">>)

NoMatch == <<>>

\* _LSOF_RE.match(line) and the tuple made of its groups.  No field holds
\* whitespace and every gap is whitespace, so the pattern is matched field by
\* field, from the first character of the line.
LSOF_RE(line) ==
    LET f == Fields(line)
    IN IF /\ line # <<>> /\ line[1] \notin Spaces
          /\ Len(f) >= 10
          /\ AllDigits(f[2])
          /\ f[5] \in {<<"I", "P", "v", "4">>, <<"I", "P", "v", "6">>}
          /\ f[8] = <<"T", "C", "P">>
          /\ RemoteSplits(f[9]) # {}
          /\ StateIs(f[10])
       THEN LET kc == CHOOSE x \in RemoteSplits(f[9]) : TRUE
            IN <<f[1], SubSeq(f[9], kc[1] + 2, kc[2] - 1),
                 ParseInt(SubSeq(f[9], kc[2] + 1, Len(f[9])))>>
       ELSE NoMatch

\* parse_lsof_output(output); NetworkCollector.collect builds `current` with
\* the same loop.
parse_lsof_output(output) ==
    LET lines == SplitOn(output, "\n")
    IN {LSOF_RE(lines[i]) : i \in {j \in 1..Len(lines) : LSOF_RE(lines[j]) # NoMatch}}

\* str.join
RECURSIVE Join(_, _)
Join(ws, sep) ==
    IF ws = <<>> THEN <<>>
    ELSE IF Len(ws) = 1 THEN ws[1]
    ELSE ws[1] \o sep \o Join(Tail(ws), sep)

\* One line of `lsof -i -P -n`.
LsofLine(command, pid, type, node, name, state) ==
    Join(<<command, pid, <<"u", "s", "e", "r">>, <<"4", "2", "u">>, type, <<"0", "x", "a", "b", "c">>, <<"0", "t", "0">>,
           node, name, state>>, <<" ", " ">>)

Chrome == <<"C", "h", "r", "o", "m", "e">>
Slack == <<"S", "l", "a", "c", "k">>
GoogleAddr == <<"9", ".", "8", ".", "7", ".", "6">>
CloudAddr == <<"1", ".", "1", ".", "1", ".", "1">>
ToGoogle == <<"1", ".", "2", ".", "3", ".", "4", ":", "5", "-", ">", "9", ".", "8", ".", "7", ".", "6", ":", "4", "4", "3">>
ToGoogleAgain == <<"1", ".", "2", ".", "3", ".", "4", ":", "6", "-", ">", "9", ".", "8", ".", "7", ".", "6", ":", "4", "4", "3">>
ToCloud == <<"1", ".", "2", ".", "3", ".", "4", ":", "7", "-", ">", "1", ".", "1", ".", "1", ".", "1", ":", "8", "0">>
Established == <<"(", "E", "S", "T", "A", "B", "L", "I", "S", "H", "E", "D", ")">>

\* The lines the texts are made of: what kind of line each is and, for a
\* connection line, the connection it shows.
LsofLines ==
    {[kind |-> "established", key |-> <<Chrome, GoogleAddr, 443>>,
      text |-> LsofLine(Chrome, <<"1", "2">>, <<"I", "P", "v", "4">>, <<"T", "C", "P">>, ToGoogle, Established)],
     [kind |-> "established", key |-> <<Chrome, GoogleAddr, 443>>,
      text |-> LsofLine(Chrome, <<"7">>, <<"I", "P", "v", "4">>, <<"T", "C", "P">>, ToGoogleAgain, Established)],
     [kind |-> "established", key |-> <<Slack, CloudAddr, 80>>,
      text |-> LsofLine(Slack, <<"3", "4", "5">>, <<"I", "P", "v", "6">>, <<"T", "C", "P">>, ToCloud, Established)],
     [kind |-> "header", key |-> NoMatch,
      text |-> Join(<<<<"C", "O", "M", "M", "A", "N", "D">>, <<"P", "I", "D">>, <<"U", "S", "E", "R">>, <<"F", "D">>, <<"T", "Y", "P", "E">>, <<"D", "E", "V", "I", "C", "E">>, <<"S", "I", "Z", "E", "/", "O", "F", "F">>, <<"N", "O", "D", "E">>, <<"N", "A", "M", "E">>>>, <<" ">>)],
     [kind |-> "listen", key |-> NoMatch,
      text |-> LsofLine(<<"h", "t", "t", "p", "d">>, <<"9", "0">>, <<"I", "P", "v", "4">>, <<"T", "C", "P">>, <<"*", ":", "8", "0">>, <<"(", "L", "I", "S", "T", "E", "N", ")">>)],
     [kind |-> "other_state", key |-> NoMatch,
      text |-> LsofLine(Chrome, <<"1", "2">>, <<"I", "P", "v", "4">>, <<"T", "C", "P">>, ToGoogle, <<"(", "C", "L", "O", "S", "E", "_", "W", "A", "I", "T", ")">>)],
     [kind |-> "malformed", key |-> NoMatch,
      text |-> LsofLine(Chrome, <<"x">>, <<"I", "P", "v", "4">>, <<"T", "C", "P">>, ToGoogle, Established)],
     [kind |-> "malformed", key |-> NoMatch,
      text |-> <<" ">> \o LsofLine(Chrome, <<"1", "2">>, <<"I", "P", "v", "4">>, <<"T", "C", "P">>, ToGoogle, Established)],
     [kind |-> "malformed", key |-> NoMatch,
      text |-> LsofLine(Chrome, <<"1", "2">>, <<"I", "P", "v", "4">>, <<"U", "D", "P">>, ToGoogle, Established)],
     [kind |-> "malformed", key |-> NoMatch,
      text |-> LsofLine(Chrome, <<"1", "2">>, <<"I", "P", "v", "6">>, <<"T", "C", "P">>, <<"[", ":", ":", "1", "]", ":", "5", "-", ">", "[", ":", ":", "1", "]", ":", "4", "4", "3">>, Established)],
     [kind |-> "malformed", key |-> NoMatch, text |-> <<>>]}

MaxLsofLines == 3

TextOf(ls) == Join([i \in 1..Len(ls) |-> ls[i].text], <<"\n">>)

LsofProbes ==
    {[fn |-> "lsof", pc |-> "ready", lines |-> ls, text |-> TextOf(ls) \o nl,
      out |-> {}, again |-> {}] :
        ls \in UNION {[1..n -> LsofLines] : n \in 0..MaxLsofLines}, nl \in {<<>>, <<"\n">>}}

\* The first call of parse_lsof_output on a text.
ParseLsof ==
    /\ probe.fn = "lsof"
    /\ probe.pc = "ready"
    /\ probe' = [probe EXCEPT !.pc = "parsed", !.out = parse_lsof_output(probe.text)]
    /\ UNCHANGED <<bufVars, storeVars, histVars, testVars, batch, transcript, txn, lc, cc, boot, sync, net, daemonVars>>

\* A second call on the same text.
ParseLsofAgain ==
    /\ probe.fn = "lsof"
    /\ probe.pc = "parsed"
    /\ probe' = [probe EXCEPT !.pc = "done", !.again = parse_lsof_output(probe.text)]
    /\ UNCHANGED <<bufVars, storeVars, histVars, testVars, batch, transcript, txn, lc, cc, boot, sync, net, daemonVars>>

NextParsers ==
    \/ ExtractPython
    \/ ExtractCollector
    \/ ParseLsof
    \/ ParseLsofAgain

\* ------------------------------------------------------------------------
\* _start_collectors over a store that holds cursors
\* ------------------------------------------------------------------------

\* ALL_COLLECTORS, in its order: a collector without cursor, ShellCollector,
\* another collector without cursor, MessagesCollector.
BootRegistry == <<"window", "shell", "wifi", "messages">>

\* What collector_state may hold for a collector: no row, a decimal number,
\* the empty string, text that is no number.
NumberCursors == {None, <<"0">>, <<"1", "2">>, <<>>, <<"a", "b", "c">>, <<"1", ".", "5">>}

\* The same for ClaudeCollector, whose cursor is a JSON object.
JsonCursors == {None, <<>>, <<"{", "}">>, <<"{", "1", ",", "5", "}">>, <<"{", "u">>, <<"7">>}

\* int(s) for a str without sign, blanks or underscores: its value, or
\* ValueError when s is not a string of decimal digits.
IntOutcome(s) ==
    IF AllDigits(s) THEN [exc |-> "none", value |-> ParseInt(s)]
    ELSE [exc |-> "ValueError", value |-> 0]

\* ShellCollector.setup(): the offset it sets, or the exception of int().
ShellSetupOutcome(saved, exists, size) ==
    IF saved # None THEN IntOutcome(saved)
    ELSE IF exists THEN [exc |-> "none", value |-> size]
    ELSE [exc |-> "none", value |-> 0]

\* MessagesCollector.setup(): _last_id (-1 for None), or the exception of
\* int().
MessagesSetupOutcome(saved) ==
    IF saved # None THEN IntOutcome(saved)
    ELSE [exc |-> "none", value |-> -1]

\* json.loads of a stored ClaudeCollector cursor.
JsonLoadsState(text) ==
    LET commas == {i \in 1..Len(text) : text[i] = ","}
    IN IF text = <<"{", "}">> THEN [json |-> "object", state |-> NoFileState]
       ELSE IF /\ Len(text) >= 5 /\ text[1] = "{" /\ text[Len(text)] = "}"
               /\ Cardinality(commas) = 1
               /\ \E c \in commas : /\ AllDigits(SubSeq(text, 2, c - 1))
                                    /\ AllDigits(SubSeq(text, c + 1, Len(text) - 1))
       THEN LET c == CHOOSE x \in commas : TRUE
            IN [json |-> "object",
                state |-> [known |-> TRUE, mtime |-> ParseInt(SubSeq(text, 2, c - 1)),
                           offset |-> ParseInt(SubSeq(text, c + 1, Len(text) - 1))]]
       ELSE IF AllDigits(text) THEN [json |-> "number", state |-> NoFileState]
       ELSE [json |-> "JSONDecodeError", state |-> NoFileState]

\* ClaudeCollector.setup(): _file_state and _initialized.  A cursor that is
\* JSON but no object is taken as it is.
ClaudeSetupOutcome(saved) ==
    IF saved = None \/ saved = <<>>
    THEN [exc |-> "none", json |-> "object", state |-> NoFileState, initialized |-> FALSE]
    ELSE LET v == JsonLoadsState(saved)
         IN IF v.json = "JSONDecodeError"
            THEN [exc |-> "none", json |-> "object", state |-> NoFileState,
                  initialized |-> FALSE]
            ELSE [exc |-> "none", json |-> v.json, state |-> v.state,
                  initialized |-> v.json = "number" \/ v.state.known]

\* setup() of the class cls over the stored cursors.
SetupOutcome(cls, b) ==
    CASE cls = "shell" -> ShellSetupOutcome(b.cursor["shell"], b.exists, b.size)
      [] cls = "messages" -> MessagesSetupOutcome(b.cursor["messages"])
      [] OTHER -> [exc |-> "none", value |-> 0]

NoBoot == [pc |-> "done"]

\* The daemon at the call of _start_collectors, a ClaudeCollector before its
\* setup(), the stored cursors and the history file.
NewBoot(cursor, exists, size) ==
    [pc |-> "start_collectors", k |-> 1, cursor |-> cursor, exists |-> exists,
     size |-> size, started |-> <<>>, value |-> [c \in {} |-> 0], exc |-> "none",
     claude |-> [pc |-> "new", exc |-> "none", json |-> "object",
                 state |-> NoFileState, initialized |-> FALSE]]

\* An exception of collector.start() leaves _start_collectors and
\* Daemon.start, which have no try.
AfterSetupError(b, exc) == [b EXCEPT !.pc = "crashed", !.exc = exc]

\* One iteration of _start_collectors: the instance is made and appended,
\* then start() runs setup() and starts the thread.
BootStartCollector ==
    /\ boot.pc = "start_collectors"
    /\ boot.k <= Len(BootRegistry)
    /\ LET cls == BootRegistry[boot.k]
           r == SetupOutcome(cls, boot)
       IN boot' = IF r.exc # "none" THEN AfterSetupError(boot, r.exc)
                  ELSE [boot EXCEPT !.k = @ + 1,
                                    !.started = Append(@, cls),
                                    !.value = [c \in DOMAIN @ \cup {cls} |->
                                                  IF c = cls THEN r.value ELSE @[c]]]
    /\ UNCHANGED <<bufVars, storeVars, histVars, testVars, batch, transcript, txn, lc, cc, probe, sync, net, daemonVars>>

\* _start_collectors has returned: start() goes on to the flush loop.
BootRunning ==
    /\ boot.pc = "start_collectors"
    /\ boot.k > Len(BootRegistry)
    /\ boot' = [boot EXCEPT !.pc = "running"]
    /\ UNCHANGED <<bufVars, storeVars, histVars, testVars, batch, transcript, txn, lc, cc, probe, sync, net, daemonVars>>

\* start() of a ClaudeCollector: its setup().
BootClaudeSetup ==
    /\ boot.pc # "done"
    /\ boot.claude.pc = "new"
    /\ boot' = [boot EXCEPT !.claude = [pc |-> "started"] @@ ClaudeSetupOutcome(boot.cursor["claude"])]
    /\ UNCHANGED <<bufVars, storeVars, histVars, testVars, batch, transcript, txn, lc, cc, probe, sync, net, daemonVars>>

NextBoot ==
    \/ BootStartCollector
    \/ BootRunning
    \/ BootClaudeSetup

\* ------------------------------------------------------------------------
\* linus.sync: run_cycle and the training thread
\* ------------------------------------------------------------------------

NoSync == [pc |-> "done"]

\* Calls of trigger_train per caller, training threads ever started, and
\* times the process is killed and started again.
MaxTriggers == 2
MaxCycles == 3
MaxKills == 1

\* The menubar and the schedule timer (_schedule_tick).
Callers == {"menubar", "timer"}

CycleIds == 1..MaxCycles

\* Eval scores in hundredths, and EVAL_THRESHOLD_SCORE = 0.35.
Scores == {0, 34, 35, 80}
EVAL_THRESHOLD_SCORE == 35

\* _DEFAULT_STATE
DefaultState == [status |-> "idle", adapter_version |-> 0, train_count |-> 0,
                 last_error |-> "None"]

\* training_state.json does not exist, or does not hold JSON.
NoStateFile == [status |-> "no file", adapter_version |-> 0, train_count |-> 0,
                last_error |-> "None"]

\* load_state(): the file's object, or the defaults when the file is
\* missing or corrupt.
LoadState(file) == IF file = NoStateFile THEN DefaultState ELSE file

NoCycle == [pc |-> "none", state |-> DefaultState, v0 |-> 0, c0 |-> 0, path |-> "none"]

IdleCaller == [pc |-> "idle", result |-> "none", calls |-> 0, saw |-> FALSE]

\* The module after import, and the state file a previous process left.
NewSync(file) ==
    [pc |-> "run", file |-> file, lock |-> "none", thread |-> 0, started |-> 0,
     kills |-> 0, caller |-> [c \in Callers |-> IdleCaller],
     cyc |-> [i \in CycleIds |-> NoCycle]]

\* Thread.is_alive(): started and run_cycle not yet over.
Alive(c) == c.pc \notin {"none", "done", "killed"}

\* is_training()
is_training(sy) == sy.thread # 0 /\ Alive(sy.cyc[sy.thread])

\* trigger_train() is called.
TrigEnter(c) ==
    /\ sync.pc = "run"
    /\ sync.caller[c].pc = "idle"
    /\ sync.caller[c].calls < MaxTriggers
    /\ sync' = [sync EXCEPT !.caller[c].pc = "acquire", !.caller[c].calls = @ + 1,
                            !.caller[c].result = "none"]
    /\ UNCHANGED <<bufVars, storeVars, histVars, testVars, batch, transcript, txn, lc, cc, probe, boot, net, daemonVars>>

TrainLockFreeAlways(lock) == TRUE

\* _train_lock can be taken.
TrainLockFree(lock) == lock = "none"

\* with _train_lock:
TrigAcquire(c) ==
    /\ sync.pc = "run"
    /\ sync.caller[c].pc = "acquire"
    /\ TrainLockFree(sync.lock)
    /\ sync' = [sync EXCEPT !.lock = c, !.caller[c].pc = "check"]
    /\ UNCHANGED <<bufVars, storeVars, histVars, testVars, batch, transcript, txn, lc, cc, probe, boot, net, daemonVars>>

\* if is_training(): return False
TrigCheck(c) ==
    /\ sync.pc = "run"
    /\ sync.caller[c].pc = "check"
    /\ sync' = IF is_training(sync)
               THEN [sync EXCEPT !.caller[c].pc = "release", !.caller[c].result = "False",
                                 !.caller[c].saw = TRUE]
               ELSE [sync EXCEPT !.caller[c].pc = "create", !.caller[c].saw = FALSE]
    /\ UNCHANGED <<bufVars, storeVars, histVars, testVars, batch, transcript, txn, lc, cc, probe, boot, net, daemonVars>>

\* _train_thread = Thread(target=run_cycle); _train_thread.start();
\* return True
TrigStart(c) ==
    /\ sync.pc = "run"
    /\ sync.caller[c].pc = "create"
    /\ sync.started < MaxCycles
    /\ LET i == sync.started + 1
       IN sync' = [sync EXCEPT !.started = i, !.thread = i,
                               !.cyc[i] = [NoCycle EXCEPT !.pc = "load"],
                               !.caller[c].pc = "release", !.caller[c].result = "True"]
    /\ UNCHANGED <<bufVars, storeVars, histVars, testVars, batch, transcript, txn, lc, cc, probe, boot, net, daemonVars>>

\* The end of the with block.
TrigRelease(c) ==
    /\ sync.pc = "run"
    /\ sync.caller[c].pc = "release"
    /\ sync' = [sync EXCEPT !.lock = IF @ = c THEN "none" ELSE @,
                            !.caller[c].pc = "idle"]
    /\ UNCHANGED <<bufVars, storeVars, histVars, testVars, batch, transcript, txn, lc, cc, probe, boot, net, daemonVars>>

AfterFailureKeepStatus(st, err) == [st EXCEPT !.last_error = err]

\* A failed step: status idle and the error.
AfterFailure(st, err) == [st EXCEPT !.status = "idle", !.last_error = err]

\* The end of a fully successful cycle.
AfterSuccess(st) ==
    [st EXCEPT !.status = "idle", !.adapter_version = @ + 1, !.train_count = @ + 1,
               !.last_error = "None"]

\* run_cycle step i saves st and returns on the path named.
Return(i, st, path) ==
    sync' = [sync EXCEPT !.file = st, !.cyc[i].state = st, !.cyc[i].pc = "done",
                         !.cyc[i].path = path]

\* run_cycle step i saves st with the status of the next step and goes on.
GoOn(i, st, status) ==
    sync' = [sync EXCEPT !.file = [st EXCEPT !.status = status],
                         !.cyc[i].state = [st EXCEPT !.status = status],
                         !.cyc[i].pc = status]

\* run_cycle: load_state() and the recovery of an interrupted status.
CycLoad(i) ==
    /\ sync.pc = "run"
    /\ sync.cyc[i].pc = "load"
    /\ LET st == LoadState(sync.file)
       IN sync' = [sync EXCEPT !.cyc[i].pc = "internet",
                               !.cyc[i].v0 = st.adapter_version,
                               !.cyc[i].c0 = st.train_count,
                               !.cyc[i].state = [st EXCEPT !.status = "idle"],
                               !.file = IF st.status # "idle"
                                        THEN [st EXCEPT !.status = "idle"] ELSE @]
    /\ UNCHANGED <<bufVars, storeVars, histVars, testVars, batch, transcript, txn, lc, cc, probe, boot, net, daemonVars>>

\* Step 1: check_internet().
CycInternet(i) ==
    /\ sync.pc = "run"
    /\ sync.cyc[i].pc = "internet"
    /\ \E ok \in BOOLEAN :
         IF ok THEN GoOn(i, sync.cyc[i].state, "building_dataset")
         ELSE Return(i, [sync.cyc[i].state EXCEPT !.last_error = "no_internet"],
                     "no_internet")
    /\ UNCHANGED <<bufVars, storeVars, histVars, testVars, batch, transcript, txn, lc, cc, probe, boot, net, daemonVars>>

\* Step 2: build_dataset().
CycDataset(i) ==
    /\ sync.pc = "run"
    /\ sync.cyc[i].pc = "building_dataset"
    /\ \E ok \in BOOLEAN :
         IF ok THEN GoOn(i, sync.cyc[i].state, "training")
         ELSE Return(i, AfterFailure(sync.cyc[i].state, "dataset_build_failed"),
                     "dataset_build_failed")
    /\ UNCHANGED <<bufVars, storeVars, histVars, testVars, batch, transcript, txn, lc, cc, probe, boot, net, daemonVars>>

\* Step 3: run_training().
CycTraining(i) ==
    /\ sync.pc = "run"
    /\ sync.cyc[i].pc = "training"
    /\ \E ok \in BOOLEAN :
         IF ok THEN GoOn(i, sync.cyc[i].state, "evaluating")
         ELSE Return(i, AfterFailure(sync.cyc[i].state, "training_failed"),
                     "training_failed")
    /\ UNCHANGED <<bufVars, storeVars, histVars, testVars, batch, transcript, txn, lc, cc, probe, boot, net, daemonVars>>

\* Step 4: run_eval() and the gate on the score.
CycEval(i) ==
    /\ sync.pc = "run"
    /\ sync.cyc[i].pc = "evaluating"
    /\ \E ok \in BOOLEAN, score \in Scores :
         IF ~ok THEN Return(i, AfterFailure(sync.cyc[i].state, "eval_failed"), "eval_failed")
         ELSE IF score < EVAL_THRESHOLD_SCORE
         THEN Return(i, AfterFailure(sync.cyc[i].state, "eval_below_threshold"),
                     "eval_below_threshold")
         ELSE GoOn(i, sync.cyc[i].state, "pulling")
    /\ UNCHANGED <<bufVars, storeVars, histVars, testVars, batch, transcript, txn, lc, cc, probe, boot, net, daemonVars>>

\* Step 5: pull_adapters(), and the success.
CycPull(i) ==
    /\ sync.pc = "run"
    /\ sync.cyc[i].pc = "pulling"
    /\ \E ok \in BOOLEAN :
         IF ok THEN Return(i, AfterSuccess(sync.cyc[i].state), "success")
         ELSE Return(i, AfterFailure(sync.cyc[i].state, "pull_failed"), "pull_failed")
    /\ UNCHANGED <<bufVars, storeVars, histVars, testVars, batch, transcript, txn, lc, cc, probe, boot, net, daemonVars>>

\* The process ends (its threads are daemon threads) and is started again:
\* the state file is what is left.
SyncRestart ==
    /\ sync.pc = "run"
    /\ sync.kills < MaxKills
    /\ sync' = [sync EXCEPT !.kills = @ + 1, !.lock = "none", !.thread = 0,
                            !.caller = [c \in Callers |->
                                           [@[c] EXCEPT !.pc = "idle", !.result = "none"]],
                            !.cyc = [i \in CycleIds |->
                                        IF Alive(@[i]) THEN [@[i] EXCEPT !.pc = "killed"]
                                        ELSE @[i]]]
    /\ UNCHANGED <<bufVars, storeVars, histVars, testVars, batch, transcript, txn, lc, cc, probe, boot, net, daemonVars>>

NextSync ==
    \/ \E c \in Callers : TrigEnter(c)
    \/ \E c \in Callers : TrigAcquire(c)
    \/ \E c \in Callers : TrigCheck(c)
    \/ \E c \in Callers : TrigStart(c)
    \/ \E c \in Callers : TrigRelease(c)
    \/ \E i \in CycleIds : CycLoad(i)
    \/ \E i \in CycleIds : CycInternet(i)
    \/ \E i \in CycleIds : CycDataset(i)
    \/ \E i \in CycleIds : CycTraining(i)
    \/ \E i \in CycleIds : CycEval(i)
    \/ \E i \in CycleIds : CycPull(i)
    \/ SyncRestart

\* ------------------------------------------------------------------------
\* NetworkCollector
\* ------------------------------------------------------------------------

NoNet == [pc |-> "done"]

\* Polls of one collector, and lines of one lsof output.
MaxPolls == 3
MaxPollLines == 2

\* What lsof prints in a poll: connection lines and LISTEN lines.
PollOutputs ==
    {ls \in UNION {[1..n -> LsofLines] : n \in 0..MaxPollLines} :
        \A i \in 1..Len(ls) : ls[i].kind \in {"established", "listen"}}

\* The event collect() builds for a connection.
NetworkEvent(key) ==
    Event("network_events",
          <<"timestamp", "process_name", "protocol", "remote_address", "remote_port">>,
          <<0, key[1], "TCP", key[2], key[3]>>)

\* NetworkCollector after setup(): _seen is empty.  polls lists, poll by
\* poll, whether lsof succeeded and the lines it printed.
NewNetwork == [pc |-> "run", seen |-> {}, polls |-> <<>>, last |-> {}]

SeenAfterKeepAll(current, seen) == seen \cup current

\* self._seen = current
SeenAfter(current, seen) == current

\* collect() when lsof printed `text`.
NetworkCollect(n, text) ==
    LET current == parse_lsof_output(text)
        new_connections == current \ n.seen
    IN [n EXCEPT !.seen = SeenAfter(current, n.seen),
                 !.last = {NetworkEvent(key) : key \in new_connections}]

\* One call of collect(): lsof prints its lines.
NetPoll ==
    /\ net.pc = "run"
    /\ Len(net.polls) < MaxPolls
    /\ \E ls \in PollOutputs :
          net' = [NetworkCollect(net, TextOf(ls) \o <<"\n">>) EXCEPT !.polls = Append(@, [ok |-> TRUE, lines |-> ls])]
    /\ UNCHANGED <<bufVars, storeVars, histVars, testVars, batch, transcript, txn, lc, cc, probe, boot, sync, daemonVars>>

\* One call of collect(): lsof is missing, times out or exits with an
\* error, and collect() returns.
NetPollFailed ==
    /\ net.pc = "run"
    /\ Len(net.polls) < MaxPolls
    /\ net' = [net EXCEPT !.polls = Append(@, [ok |-> FALSE, lines |-> <<>>]), !.last = {}]
    /\ UNCHANGED <<bufVars, storeVars, histVars, testVars, batch, transcript, txn, lc, cc, probe, boot, sync, daemonVars>>

NextNetwork ==
    \/ NetPoll
    \/ NetPollFailed

\* ------------------------------------------------------------------------
\* Initial states of the components
\* ------------------------------------------------------------------------

\* Daemon.__init__, and a history file that does not exist yet.
InitDaemon ==
    /\ daemon = [pc |-> "init", op |-> "start", k |-> 0]
    /\ running = FALSE
    /\ collectors = <<>>
    /\ nextInst = 0
    /\ inst = [i \in InstIds |-> NoInst]
    /\ fileSize = 0
    /\ ticks = 0
    /\ resume = "none"
    /\ atReload = {}

InitClients ==
    /\ batch = IdleBatch
    /\ transcript = NewTranscript
    /\ txn = IdleTxn
    /\ lc = NewCollector("shell", FALSE)
    /\ cc = NewClaude(0)
    /\ probe = NoProbe
    /\ boot = NoBoot
    /\ sync = NoSync
    /\ net = NoNet

InitBuffer ==
    /\ events = <<>>
    /\ bufLock = NoThread
    /\ bcall = [t \in Threads |-> IdleCall]

InitHist ==
    /\ handed = <<>>
    /\ lost = {}
    /\ pushed = {}

InitHarness ==
    /\ sent = [t \in Producers |-> 0]
    /\ mpc = "run"
    /\ interim = 0
    /\ InitClients
    /\ InitDaemon
    /\ registry = <<"shell", "wifi">>

InitStoreClosed ==
    /\ faults = MaxFaults
    /\ conn = "closed"
    /\ opens = 0
    /\ tables = <<>>
    /\ wcall = [t \in Threads |-> IdleWm]
    /\ lastSet = [n \in CollectorNames |-> [value |-> None, h |-> 0]]

\* A store that was opened once on a new file.
InitStoreOpen ==
    /\ faults = MaxFaults
    /\ conn = "open"
    /\ opens = 1
    /\ tables = ApplySchema(<<>>)
    /\ wcall = [t \in Threads |-> IdleWm]
    /\ lastSet = [n \in CollectorNames |-> [value |-> None, h |-> 0]]

\* ------------------------------------------------------------------------
\* Harness of tests/test_buffer.py: K producer threads, then one flush
\* ------------------------------------------------------------------------

\* Destination tables the producers use; "bogus" is not a table of the store.
PushTables == {"wifi_events", "shell_events", "bogus"}

ColumnsFor(table) ==
    CASE table = "wifi_events"  -> <<"timestamp", "ssid">>
      [] table = "shell_events" -> <<"timestamp", "command">>
      [] OTHER                  -> <<"x", "y">>

\* The n-th event of producer t; its value tuple identifies it.
ProducerEvent(t, n, table) == Event(table, ColumnsFor(table), <<t, n>>)

ProducerPush(t) ==
    /\ mpc = "run"
    /\ bcall[t].pc = "idle"
    /\ sent[t] < EventsPerProducer
    /\ \E table \in PushTables :
         EnterCall(t, "push", <<ProducerEvent(t, sent[t] + 1, table)>>)
    /\ sent' = [sent EXCEPT ![t] = @ + 1]
    /\ UNCHANGED <<events, bufLock, storeVars, handed, lost, mpc, interim, clientVars, daemonVars>>

ProducerPushMany(t) ==
    /\ mpc = "run"
    /\ bcall[t].pc = "idle"
    /\ sent[t] < EventsPerProducer
    /\ \E n \in 0..(EventsPerProducer - sent[t]) :
       \E tbl \in [1..n -> PushTables] :
         /\ EnterCall(t, "push_many",
                      [i \in 1..n |-> ProducerEvent(t, sent[t] + i, tbl[i])])
         /\ sent' = [sent EXCEPT ![t] = @ + n]
    /\ UNCHANGED <<events, bufLock, storeVars, handed, lost, mpc, interim, clientVars, daemonVars>>

ProducersJoined ==
    \A t \in Producers : sent[t] = EventsPerProducer /\ bcall[t].pc = "idle"

\* A flush() of the main thread while the producers are running.
HarnessInterimFlush ==
    /\ mpc = "run"
    /\ bcall[Main].pc = "idle"
    /\ interim < MaxInterimFlush
    /\ EnterCall(Main, "flush", <<>>)
    /\ interim' = interim + 1
    /\ UNCHANGED <<events, bufLock, storeVars, handed, lost, sent, mpc, clientVars, daemonVars>>

\* The flush() of the main thread after it joined every producer.
HarnessFinalFlush ==
    /\ mpc = "run"
    /\ bcall[Main].pc = "idle"
    /\ ProducersJoined
    /\ EnterCall(Main, "flush", <<>>)
    /\ mpc' = "final"
    /\ UNCHANGED <<events, bufLock, storeVars, handed, lost, sent, interim, clientVars, daemonVars>>

InitBufferHarness ==
    /\ InitBuffer
    /\ InitHist
    /\ InitHarness
    /\ InitStoreOpen

NextBufferHarness ==
    \/ BufferStep
    \/ \E t \in Producers : ProducerPush(t)
    \/ \E t \in Producers : ProducerPushMany(t)
    \/ HarnessInterimFlush
    \/ HarnessFinalFlush

SpecBuffer == InitBufferHarness /\ [][NextBufferHarness]_vars

\* Column lists the producers give to events of shell_events: the columns
\* in two orders, and a longer list.
ColumnLists == {<<"timestamp", "command">>, <<"command", "timestamp">>,
                <<"timestamp", "command", "elapsed_seconds">>}

\* The n-th event of producer t under the column list cols: each value
\* names the column it was built for.
ColumnsEvent(t, n, cols) ==
    Event("shell_events", cols, [k \in 1..Len(cols) |-> <<cols[k], t, n>>])

\* A producer pushes an event whose column list it chose.
ColumnsPush(t) ==
    /\ mpc = "run"
    /\ bcall[t].pc = "idle"
    /\ sent[t] < EventsPerProducer
    /\ \E cols \in ColumnLists :
         EnterCall(t, "push", <<ColumnsEvent(t, sent[t] + 1, cols)>>)
    /\ sent' = [sent EXCEPT ![t] = @ + 1]
    /\ UNCHANGED <<events, bufLock, storeVars, handed, lost, mpc, interim, clientVars, daemonVars>>

NextColumns ==
    \/ BufferStep
    \/ \E t \in Producers : ColumnsPush(t)
    \/ HarnessInterimFlush
    \/ HarnessFinalFlush

\* Producers whose events of one table differ in their column lists.
SpecColumns == InitBufferHarness /\ [][NextColumns]_vars

\* The producers are joined and the final flush has returned.
HarnessDone == mpc = "final" /\ bcall[Main].pc = "idle" /\ ProducersJoined

\* ------------------------------------------------------------------------
\* Harness of tests/test_db.py (TestWatermarks) with concurrent clients
\* ------------------------------------------------------------------------

\* Cursor strings the clients store.
Cursors == {<<"4", "2">>, <<"7">>}

RunTimestamps == {1, 2}

ClientSetWatermark(t) ==
    /\ wcall[t].pc = "idle"
    /\ \E name \in CollectorNames, v \in Cursors, ts \in RunTimestamps :
         EnterWm(t, "set", name, v, ts)
    /\ UNCHANGED <<bufVars, conn, opens, faults, tables, lastSet, histVars, harnessVars>>

ClientGetWatermark(t) ==
    /\ wcall[t].pc = "idle"
    /\ \E name \in CollectorNames : EnterWm(t, "get", name, None, 0)
    /\ UNCHANGED <<bufVars, conn, opens, faults, tables, lastSet, histVars, harnessVars>>

\* The call returns to (or raises into) the client.
ClientReturn(t) ==
    /\ wcall[t].pc = "ret"
    /\ wcall' = [wcall EXCEPT ![t] = IdleWm]
    /\ UNCHANGED <<bufVars, conn, opens, faults, tables, lastSet, histVars, harnessVars>>

InitStoreHarness ==
    /\ InitBuffer
    /\ InitHist
    /\ InitHarness
    /\ InitStoreClosed

NextStoreHarness ==
    \/ DbOpen
    \/ DbClose
    \/ \E t \in Producers : ClientSetWatermark(t)
    \/ \E t \in Producers : ClientGetWatermark(t)
    \/ \E t \in Producers : WmEnsureConn(t)
    \/ \E t \in Producers : WmExecute(t)
    \/ \E t \in Producers : ClientReturn(t)

SpecStore == InitStoreHarness /\ [][NextStoreHarness]_vars

\* tests/test_claude.py: a transcript that grows while it is parsed.
SpecTranscript == InitStoreHarness /\ [][NextTranscript]_vars

\* tests/test_db.py: batch_insert on a store that is opened and closed.
SpecBatch == InitStoreHarness /\ [][NextBatch]_vars

\* One collector object of each class, started and stopped.
InitLifecycle ==
    /\ InitBuffer
    /\ InitHist
    /\ sent = [t \in Producers |-> 0]
    /\ mpc = "run"
    /\ interim = 0
    /\ batch = IdleBatch
    /\ transcript = NewTranscript
    /\ txn = IdleTxn
    /\ cc = NewClaude(0)
    /\ probe = NoProbe
    /\ boot = NoBoot
    /\ sync = NoSync
    /\ net = NoNet
    /\ InitDaemon
    /\ registry = <<"shell", "wifi">>
    /\ InitStoreClosed
    /\ \E cls \in LcClasses, paths \in BOOLEAN :
         /\ (cls # "filesystem" => ~paths)
         /\ lc = NewCollector(cls, paths)

SpecLifecycle == InitLifecycle /\ [][NextLifecycle]_vars

\* A ClaudeCollector on its first run, with a transcript of 0 to 2 entries.
InitClaude ==
    /\ InitBuffer
    /\ InitHist
    /\ sent = [t \in Producers |-> 0]
    /\ mpc = "run"
    /\ interim = 0
    /\ batch = IdleBatch
    /\ transcript = NewTranscript
    /\ txn = IdleTxn
    /\ lc = NewCollector("shell", FALSE)
    /\ probe = NoProbe
    /\ boot = NoBoot
    /\ sync = NoSync
    /\ net = NoNet
    /\ InitDaemon
    /\ registry = <<"shell", "wifi">>
    /\ InitStoreClosed
    /\ \E n0 \in 0..2 : cc = NewClaude(n0)

SpecClaude == InitClaude /\ [][NextClaude]_vars

\* A parser and the input it is called with.
InitParsers ==
    /\ InitBuffer
    /\ InitHist
    /\ sent = [t \in Producers |-> 0]
    /\ mpc = "run"
    /\ interim = 0
    /\ batch = IdleBatch
    /\ transcript = NewTranscript
    /\ txn = IdleTxn
    /\ lc = NewCollector("shell", FALSE)
    /\ cc = NewClaude(0)
    /\ InitDaemon
    /\ registry = <<"shell", "wifi">>
    /\ InitStoreClosed
    /\ probe \in ExtractProbes \cup LsofProbes
    /\ boot = NoBoot
    /\ sync = NoSync
    /\ net = NoNet

SpecParsers == InitParsers /\ [][NextParsers]_vars

\* The daemon about to start its collectors over a store that was written
\* before.
InitBoot ==
    /\ InitBuffer
    /\ InitHist
    /\ sent = [t \in Producers |-> 0]
    /\ mpc = "run"
    /\ interim = 0
    /\ batch = IdleBatch
    /\ transcript = NewTranscript
    /\ txn = IdleTxn
    /\ lc = NewCollector("shell", FALSE)
    /\ cc = NewClaude(0)
    /\ probe = NoProbe
    /\ sync = NoSync
    /\ net = NoNet
    /\ InitDaemon
    /\ registry = <<"shell", "wifi">>
    /\ InitStoreClosed
    /\ \E sh \in NumberCursors, ms \in NumberCursors, cl \in JsonCursors,
          exists \in BOOLEAN, size \in {0, 2} :
            /\ ~exists => size = 0
            /\ boot = NewBoot([shell |-> sh, messages |-> ms, claude |-> cl], exists, size)

SpecBoot == InitBoot /\ [][NextBoot]_vars

\* ------------------------------------------------------------------------
\* Daemon.collectors over start() and reload()
\* ------------------------------------------------------------------------

\* ALL_COLLECTORS, cut to its first three classes.
ReloadRegistry == <<"window", "location", "browser">>

\* SIGHUP signals delivered to the process.
MaxSigHups == 3

\* Handlers that can be on the stack of the main thread at once: a Python
\* signal handler runs between two bytecodes of the main thread, also
\* between two bytecodes of a handler that is running.
MaxHandlers == 2

\* The main thread in Daemon.start, at the call of _start_collectors:
\* frames is its stack of calls of start() / reload(), the innermost first;
\* a frame is interrupted once a handler ran on top of it; collectors is
\* Daemon.collectors; stopped holds the instances whose stop() was called;
\* returned is the last reload() that returned.
NewReload ==
    [frames |-> <<[op |-> "start", pc |-> "start_collectors", k |-> 1, since |-> 0,
                   interrupted |-> FALSE]>>,
     collectors |-> <<>>, next |-> 0, stopped |-> {}, sighups |-> 0,
     returned |-> [since |-> -1, collectors |-> <<>>, interrupted |-> FALSE]]

ReloadBooted == "frames" \in DOMAIN boot

TopFrame == boot.frames[1]

WithTop(f) == [boot EXCEPT !.frames = <<f>> \o Tail(@)]

\* The signal handlers are installed once _start_collectors of start() has
\* returned; a SIGHUP then calls reload() on the main thread, wherever it is.
RelSigHup ==
    /\ ReloadBooted
    /\ boot.sighups < MaxSigHups
    /\ \A i \in 1..Len(boot.frames) : boot.frames[i].op = "reload"
    /\ Len(boot.frames) < MaxHandlers
    /\ boot' = [boot EXCEPT !.sighups = @ + 1,
                            !.frames = <<[op |-> "reload", pc |-> "stop_collectors",
                                          k |-> 1, since |-> boot.next,
                                          interrupted |-> FALSE]>>
                                       \o [i \in 1..Len(@) |->
                                              [@[i] EXCEPT !.interrupted = TRUE]]]
    /\ UNCHANGED <<bufVars, storeVars, histVars, testVars, batch, transcript, txn, lc, cc, probe, sync, net, daemonVars>>

\* One iteration of `for c in self.collectors: c.stop()`: the list iterator
\* takes the element at its index of the list as it is now.
RelStopCollector ==
    /\ ReloadBooted
    /\ boot.frames # <<>>
    /\ TopFrame.pc = "stop_collectors"
    /\ TopFrame.k <= Len(boot.collectors)
    /\ boot' = [WithTop([TopFrame EXCEPT !.k = @ + 1])
                   EXCEPT !.stopped = @ \cup {boot.collectors[TopFrame.k].id}]
    /\ UNCHANGED <<bufVars, storeVars, histVars, testVars, batch, transcript, txn, lc, cc, probe, sync, net, daemonVars>>

\* self.collectors.clear()
Cleared(cs) == <<>>

\* The end of _stop_collectors, then buffer.flush() and the schema script.
RelClear ==
    /\ ReloadBooted
    /\ boot.frames # <<>>
    /\ TopFrame.pc = "stop_collectors"
    /\ TopFrame.k > Len(boot.collectors)
    /\ boot' = [WithTop([TopFrame EXCEPT !.pc = "start_collectors", !.k = 1])
                   EXCEPT !.collectors = Cleared(@)]
    /\ UNCHANGED <<bufVars, storeVars, histVars, testVars, batch, transcript, txn, lc, cc, probe, sync, net, daemonVars>>

\* One iteration of _start_collectors: a new instance of the class is
\* appended to Daemon.collectors and started.
RelStartCollector ==
    /\ ReloadBooted
    /\ boot.frames # <<>>
    /\ TopFrame.pc = "start_collectors"
    /\ TopFrame.k <= Len(ReloadRegistry)
    /\ boot' = [WithTop([TopFrame EXCEPT !.k = @ + 1])
                   EXCEPT !.next = @ + 1,
                          !.collectors = Append(@, [id |-> boot.next + 1,
                                                    cls |-> ReloadRegistry[TopFrame.k]])]
    /\ UNCHANGED <<bufVars, storeVars, histVars, testVars, batch, transcript, txn, lc, cc, probe, sync, net, daemonVars>>

\* _start_collectors has returned: start() goes on to the flush loop, a
\* reload() logs its health entry and returns to what it interrupted.
RelReturn ==
    /\ ReloadBooted
    /\ boot.frames # <<>>
    /\ TopFrame.pc = "start_collectors"
    /\ TopFrame.k > Len(ReloadRegistry)
    /\ boot' = [boot EXCEPT !.frames = Tail(@),
                            !.returned = IF TopFrame.op = "reload"
                                         THEN [since |-> TopFrame.since,
                                               collectors |-> boot.collectors,
                                               interrupted |-> TopFrame.interrupted]
                                         ELSE @]
    /\ UNCHANGED <<bufVars, storeVars, histVars, testVars, batch, transcript, txn, lc, cc, probe, sync, net, daemonVars>>

NextReload ==
    \/ RelSigHup
    \/ RelStopCollector
    \/ RelClear
    \/ RelStartCollector
    \/ RelReturn

InitReload ==
    /\ InitBuffer
    /\ InitHist
    /\ sent = [t \in Producers |-> 0]
    /\ mpc = "run"
    /\ interim = 0
    /\ batch = IdleBatch
    /\ transcript = NewTranscript
    /\ txn = IdleTxn
    /\ lc = NewCollector("shell", FALSE)
    /\ cc = NewClaude(0)
    /\ probe = NoProbe
    /\ sync = NoSync
    /\ net = NoNet
    /\ InitDaemon
    /\ registry = <<"shell", "wifi">>
    /\ InitStoreClosed
    /\ boot = NewReload

SpecReload == InitReload /\ [][NextReload]_vars

\* The process that imported linus.sync, over the state file left before.
InitSync ==
    /\ InitBuffer
    /\ InitHist
    /\ sent = [t \in Producers |-> 0]
    /\ mpc = "run"
    /\ interim = 0
    /\ batch = IdleBatch
    /\ transcript = NewTranscript
    /\ txn = IdleTxn
    /\ lc = NewCollector("shell", FALSE)
    /\ cc = NewClaude(0)
    /\ probe = NoProbe
    /\ boot = NoBoot
    /\ net = NoNet
    /\ InitDaemon
    /\ registry = <<"shell", "wifi">>
    /\ InitStoreClosed
    /\ \E file \in {NoStateFile, DefaultState, [DefaultState EXCEPT !.status = "training"]} :
          sync = NewSync(file)

SpecSync == InitSync /\ [][NextSync]_vars

\* A NetworkCollector that was just started.
InitNetwork ==
    /\ InitBuffer
    /\ InitHist
    /\ sent = [t \in Producers |-> 0]
    /\ mpc = "run"
    /\ interim = 0
    /\ batch = IdleBatch
    /\ transcript = NewTranscript
    /\ txn = IdleTxn
    /\ lc = NewCollector("shell", FALSE)
    /\ cc = NewClaude(0)
    /\ probe = NoProbe
    /\ boot = NoBoot
    /\ sync = NoSync
    /\ InitDaemon
    /\ registry = <<"shell", "wifi">>
    /\ InitStoreClosed
    /\ net = NewNetwork

SpecNetwork == InitNetwork /\ [][NextNetwork]_vars

\* The threads of one process on the store connection.
SpecConn == InitStoreHarness /\ [][NextConn]_vars

\* The daemon process, from Daemon() on a machine without a store file.
InitDaemonProcess ==
    /\ InitBuffer
    /\ InitHist
    /\ sent = [t \in Producers |-> 0]
    /\ mpc = "run"
    /\ interim = 0
    /\ InitClients
    /\ InitDaemon
    /\ registry \in Registries
    /\ InitStoreClosed

SpecDaemon == InitDaemonProcess /\ [][NextDaemon]_vars

\* The process is killed (SIGKILL, power loss) and started again: the queue
\* and every thread of the old process are gone, the file of the store keeps
\* what was committed, and the new process begins at Daemon.start.  One
\* restart is modelled: the store file is opened at most MaxOpens times.
KillRestart ==
    /\ daemon.pc # "init"
    /\ opens < MaxOpens
    /\ events' = <<>>
    /\ bufLock' = NoThread
    /\ bcall' = [t \in Threads |-> IdleCall]
    /\ wcall' = [t \in Threads |-> IdleWm]
    /\ conn' = "closed"
    /\ daemon' = [pc |-> "init", op |-> "start", k |-> 0]
    /\ running' = FALSE
    /\ collectors' = <<>>
    /\ nextInst' = 0
    /\ inst' = [i \in InstIds |-> NoInst]
    /\ ticks' = 0
    /\ UNCHANGED <<opens, tables, faults, lastSet, histVars, testVars, clientVars,
                   registry, fileSize, resume, atReload>>

NextCrash ==
    \/ HistoryAppend
    \/ DaemonOpen
    \/ DaemonLogStartup
    \/ StartCollector
    \/ DaemonRun
    \/ FlushTick
    \/ FlushTickDone
    \/ KillRestart
    \/ \E i \in InstIds : TimerElapse(i)
    \/ \E i \in InstIds : ThreadLoop(i)
    \/ \E i \in InstIds : ShellCollect(i)
    \/ \E i \in InstIds : ShellSetWatermark(i)
    \/ \E t \in DaemonThreads : BufAppend(t)
    \/ \E t \in DaemonThreads : BufFlushBegin(t)
    \/ \E t \in DaemonThreads : BufInsert(t)
    \/ \E t \in DaemonThreads : BufRelease(t)

\* The daemon with the shell collector, killed and restarted.
InitCrash ==
    /\ InitBuffer
    /\ InitHist
    /\ sent = [t \in Producers |-> 0]
    /\ mpc = "run"
    /\ interim = 0
    /\ InitClients
    /\ InitDaemon
    /\ registry = <<"shell">>
    /\ InitStoreClosed

SpecCrash == InitCrash /\ [][NextCrash]_vars

\* Heartbeat entries the flush loop writes in one run.
MaxHeartbeats == 1

\* One iteration of _run_flush_loop, first half, in a loop that goes on for
\* as long as the daemon runs: the iterations after MaxTicks are not counted.
LoopFlush ==
    /\ daemon.pc = "sleep"
    /\ running
    /\ bcall[Main].pc = "idle"
    /\ EnterCall(Main, "flush", <<>>)
    /\ ticks' = IF ticks < MaxTicks THEN ticks + 1 ELSE ticks
    /\ daemon' = [daemon EXCEPT !.pc = "flushing"]
    /\ UNCHANGED <<events, bufLock, storeVars, handed, lost, testVars, clientVars, registry, resume, atReload,
                   running, collectors, nextInst, inst, fileSize>>

HeartbeatsWritten ==
    Cardinality({k \in 1..Len(tables["daemon_health"]) :
                    tables["daemon_health"][k].values[2] = "heartbeat"})

\* The second half: the heartbeat when it is due.
LoopFlushDone ==
    /\ daemon.pc = "flushing"
    /\ bcall[Main].pc = "idle"
    /\ \E due \in (IF HeartbeatsWritten < MaxHeartbeats THEN BOOLEAN ELSE {FALSE}) :
        IF due
        THEN LogHealth("heartbeat", [daemon EXCEPT !.pc = "sleep"])
        ELSE /\ daemon' = [daemon EXCEPT !.pc = "sleep"]
             /\ UNCHANGED <<tables, faults>>
    /\ UNCHANGED <<bufVars, conn, opens, wcall, lastSet, histVars, testVars, clientVars, registry, resume, atReload,
                   running, collectors, nextInst, inst, fileSize, ticks>>

\* The steps of the main thread, of a signal handler on it, and of the
\* thread of a collector.
MainStep ==
    \/ DaemonOpen
    \/ DaemonLogStartup
    \/ StartCollector
    \/ DaemonRun
    \/ LoopFlush
    \/ LoopFlushDone

HandlerStep ==
    \/ StopSignal
    \/ StopJoined
    \/ StopJoinTimeout
    \/ StopCollectorsDone
    \/ ReloadSchema
    \/ ReloadLogHealth

CollectorStep(i) ==
    \/ ThreadLoop(i)
    \/ ShellCollect(i)
    \/ ShellSetWatermark(i)

BufferStepOf(t) ==
    \/ BufAppend(t)
    \/ BufFlushBegin(t)
    \/ BufInsert(t)
    \/ BufRelease(t)

NextLoop ==
    \/ HistoryAppend
    \/ SigHup
    \/ MainStep
    \/ HandlerStep
    \/ \E i \in InstIds : TimerElapse(i)
    \/ \E i \in InstIds : CollectorStep(i)
    \/ \E t \in DaemonThreads : BufferStepOf(t)

\* Every thread that can take a step takes one in the end (the scheduler
\* of the operating system, the sleep of the flush loop that returns);
\* appends to the history file, timers and signals are free to stay away.
FairLoop ==
    /\ WF_vars(MainStep)
    /\ WF_vars(HandlerStep)
    /\ \A i \in InstIds : WF_vars(CollectorStep(i))
    /\ \A t \in DaemonThreads : WF_vars(BufferStepOf(t))

\* The daemon with the shell collector and a flush loop that never ends.
SpecLoop == InitCrash /\ [][NextLoop]_vars /\ FairLoop

\* ------------------------------------------------------------------------
\* Properties of the event buffer (SpecBuffer)
\* ------------------------------------------------------------------------

TotalRows == LET RECURSIVE Sum(_)
                 Sum(S) == IF S = {} THEN 0
                           ELSE LET tb == CHOOSE x \in S : TRUE
                                IN Len(tables[tb]) + Sum(S \ {tb})
             IN Sum(RowTables \ {"daemon_health"})

\* Number of rows of the store that carry the value tuple v.
StoredCount(v) ==
    LET RECURSIVE Sum(_)
        Sum(S) == IF S = {} THEN 0
                  ELSE LET tb == CHOOSE x \in S : TRUE
                       IN Cardinality({i \in 1..Len(tables[tb]) : tables[tb][i].values = v})
                          + Sum(S \ {tb})
    IN Sum(RowTables \ {"daemon_health"})

HandedCount(v) == IF v \in DOMAIN handed THEN handed[v] ELSE 0

PushedValues == {ev.values : ev \in pushed}

PendingValues == {events[i].values : i \in 1..Len(events)}

\* C1: for every interleaving of the K producers (in-line flushes included)
\* no event is ever given to batch_insert twice; once the producers are
\* joined and the final flush has returned every pushed event was given to
\* batch_insert exactly once, and when no insert raised the store holds
\* exactly K*J rows, one per pushed event.
C1_ExactlyOnce ==
    /\ \A v \in DOMAIN handed : handed[v] <= 1
    /\ HarnessDone =>
         /\ Cardinality(PushedValues) = NumProducers * EventsPerProducer
         /\ \A v \in PushedValues : HandedCount(v) = 1
         /\ lost = {} =>
              /\ TotalRows = NumProducers * EventsPerProducer
              /\ \A v \in PushedValues : StoredCount(v) = 1

\* C1 witness: the run is over, no insert raised, an in-line flush fired
\* (no interim flush was issued and the final flush found less than the
\* whole load), and the K*J rows are in the store.
C1_Witness ==
    /\ HarnessDone
    /\ lost = {}
    /\ interim = 0
    /\ TotalRows = NumProducers * EventsPerProducer
    /\ \E v \in PushedValues : v[1] = 101 /\ StoredCount(v) = 1

PushedFor(table) == {ev \in pushed : ev.table = table}

\* C2: after the pushes and the flush, when every insert succeeded, the
\* store holds as many rows as events were pushed, and each table holds as
\* many rows as events were pushed for it.
C2_PartitionedByTable ==
    (HarnessDone /\ lost = {}) =>
        /\ TotalRows = Cardinality(pushed)
        /\ \A tb \in RowTables : Len(tables[tb]) = Cardinality(PushedFor(tb))

\* C2 witness: a finished run without failure whose events went to two
\* distinct tables, more than one event to one of them.
C2_Witness ==
    /\ HarnessDone
    /\ lost = {}
    /\ Len(tables["wifi_events"]) >= 2
    /\ Len(tables["shell_events"]) >= 1

\* C3 (as claimed): a thread that is inside the insert loop of a flush has
\* released the buffer lock, so that a concurrent push can complete.
C3_LockReleasedBeforeInsert ==
    \A t \in Threads : bcall[t].pc = "insert" => bufLock # t

TablesOf(s) == [i \in 1..Len(s) |-> s[i].table]

\* C4: when a flush has run its insert loop, it did not raise, it called
\* batch_insert for every grouped table (the ones after a failed table
\* included), the queue is empty, and the events of a failed table are
\* neither in the queue nor in the store nor handed to the store again.
C4_FailedInsertIsolated ==
    /\ \A t \in Threads :
         (bcall[t].pc = "release" /\ bcall[t].grouped # <<>>) =>
            /\ ~bcall[t].exc
            /\ TablesOf(bcall[t].tried) = TablesOf(bcall[t].grouped)
            /\ events = <<>>
    /\ \A v \in lost :
         /\ HandedCount(v) = 1
         /\ v \notin PendingValues
         /\ StoredCount(v) = 0

\* C4 witness: a flush whose first table failed and whose second table was
\* inserted, at the end of its insert loop.
C4_Witness ==
    \E t \in Threads :
        /\ bcall[t].pc = "release"
        /\ Len(bcall[t].tried) >= 2
        /\ Raised(bcall[t].tried[1].outcome)
        /\ bcall[t].tried[2].outcome = "ok"

\* ------------------------------------------------------------------------
\* Properties of the watermark store (SpecStore)
\* ------------------------------------------------------------------------

\* C6: a get_watermark that returns gives None when no set_watermark for
\* that name was ever executed, and otherwise the value of the last one,
\* whether the set was done on this connection or on an earlier one that
\* has been closed since.
C6_WatermarkDurable ==
    \A t \in Threads :
        (wcall[t].pc = "ret" /\ wcall[t].op = "get" /\ wcall[t].exc = "none") =>
            wcall[t].result = wcall[t].want

\* C6 witness: a get on a fresh connection returns the cursor that was set
\* on an earlier connection.
C6_Witness ==
    \E t \in Threads :
        /\ wcall[t].pc = "ret" /\ wcall[t].op = "get" /\ wcall[t].exc = "none"
        /\ wcall[t].result = <<"4", "2">>
        /\ wcall[t].h > lastSet[wcall[t].name].h

RowsNamed(db, name) ==
    {i \in 1..Len(db["collector_state"]) :
        db["collector_state"][i].collector_name = name}

\* C7: the store holds at most one watermark row per name and that row
\* carries the most recent set for the name; a step changes the watermark
\* of a name only when it executes a set_watermark for that name, and then
\* to the value of that call.
C7_UpsertLastWriterWins ==
    /\ [](opens > 0 =>
            \A n \in CollectorNames :
                /\ Cardinality(RowsNamed(tables, n)) <= 1
                /\ SelectWatermark(tables, n) = lastSet[n].value)
    /\ [][opens > 0 =>
            \A n \in CollectorNames :
                SelectWatermark(tables', n) # SelectWatermark(tables, n) =>
                    \E t \in Threads :
                        /\ wcall[t].pc = "exec" /\ wcall[t].op = "set"
                        /\ wcall[t].name = n
                        /\ wcall'[t].pc = "ret"
                        /\ SelectWatermark(tables', n) = wcall[t].value]_vars

\* C7 witness: the row of one name was inserted before the row of another
\* name and updated after the last set of that other name (so it was set
\* at least twice), and two threads are inside set_watermark calls for
\* different names.
C7_Witness ==
    /\ opens > 0
    /\ Len(tables["collector_state"]) = 2
    /\ LET n == tables["collector_state"][1].collector_name
           m == tables["collector_state"][2].collector_name
       IN /\ lastSet[n].h > lastSet[m].h
          /\ SelectWatermark(tables, n) = lastSet[n].value
    /\ \E t1, t2 \in Threads :
         /\ wcall[t1].pc = "exec" /\ wcall[t1].op = "set"
         /\ wcall[t2].pc = "exec" /\ wcall[t2].op = "set"
         /\ wcall[t1].name # wcall[t2].name

\* ------------------------------------------------------------------------
\* Properties of the collectors under the daemon (SpecDaemon)
\* ------------------------------------------------------------------------

\* C5 (as claimed): no step replaces the stored cursor of a collector name
\* by an earlier one or removes it.
C5_WatermarkNeverGoesBack ==
    [][opens > 0 =>
         \A n \in CollectorNames :
            LET old == SelectWatermark(tables, n)
                new == SelectWatermark(tables', n)
            IN old # None => (new # None /\ ParseInt(new) >= ParseInt(old))]_vars

\* C8 (as claimed): no two threads are inside collect() for the same
\* collector name at the same time.
C8_OneCollectPerName ==
    \A i, j \in InstIds :
        (i # j /\ inst[i].cls = inst[j].cls /\ inst[i].th = "collect") =>
            inst[j].th # "collect"

\* C9: the step in which a collect() raises puts the thread of that
\* collector back into its loop and changes nothing of the other
\* collectors, of the main thread or of its buffer call; a thread that
\* waits in its loop without a stop signal invokes collect() again when its
\* interval has elapsed, and the interval can elapse; and a collector thread
\* has ended only if its stop was signalled.
C9_CollectErrorContained ==
    /\ [](\A i \in InstIds :
            /\ inst[i].th = "exited" => inst[i].stop
            /\ (ProcessAlive /\ inst[i].th = "loop" /\ ~inst[i].stop) =>
                  IF inst[i].due THEN ENABLED ThreadLoop(i)
                  ELSE ENABLED TimerElapse(i))
    /\ [][\A i \in InstIds :
            inst'[i].raises > inst[i].raises =>
                /\ inst'[i].th = "loop"
                /\ inst'[i].stop = inst[i].stop
                /\ \A j \in InstIds \ {i} : inst'[j] = inst[j]
                /\ daemon' = daemon
                /\ running' = running
                /\ collectors' = collectors
                /\ bcall'[Main] = bcall[Main]]_vars

\* C9 witness: a collector whose collect() raised is inside collect()
\* again, without a stop signal, while another collector runs and the main
\* thread is in an iteration of the flush loop.
C9_Witness ==
    \E i, j \in InstIds :
        /\ i # j
        /\ inst[i].raises >= 1 /\ ~inst[i].stop /\ inst[i].th = "collect"
        /\ inst[j].th \in {"loop", "collect"} /\ ~inst[j].stop
        /\ daemon.pc = "flushing"

\* C10 (as claimed): a thread is inside collect() only after setup() and
\* before teardown() of its collector; teardown() is called at most once
\* and only after the stop signal.
C10_LifecycleOrder ==
    \A i \in InstIds :
        /\ inst[i].th = "collect" => (inst[i].setups = 1 /\ inst[i].teardowns = 0)
        /\ inst[i].teardowns <= 1
        /\ inst[i].teardowns = 1 => inst[i].stop

LastHealth ==
    IF "daemon_health" \in DOMAIN tables /\ tables["daemon_health"] # <<>>
    THEN tables["daemon_health"][Len(tables["daemon_health"])].values[2]
    ELSE "none"

\* The steps of stop(), as pairs of positions of the main thread.
StopOrder ==
    {<<"stop_collectors", "join">>, <<"join", "stop_collectors">>,
     <<"stop_collectors", "handler_flush">>, <<"handler_flush", "closing">>,
     <<"handler_flush", "crashed">>, <<"closing", "exited">>}

IsPrefix(a, b) == Len(a) <= Len(b) /\ SubSeq(b, 1, Len(a)) = a

\* reload() is past its buffer.flush().
ReloadFlushed ==
    /\ daemon.op = "reload"
    /\ \/ daemon.pc = "start_collectors"
       \/ daemon.pc = "handler_flush" /\ bcall[Handler].pc = "idle"

\* C13: no step of reload() changes a stored watermark or removes or
\* changes a stored row; and once reload() is past its flush, every event
\* that was pending when reload() was entered has been given to
\* batch_insert and is in the store unless that batch_insert raised.
C13_ReloadKeepsData ==
    /\ [](ReloadFlushed =>
            \A v \in atReload :
                /\ HandedCount(v) >= 1
                /\ v \notin lost => StoredCount(v) >= 1)
    /\ [][(daemon.op = "reload" /\
            (daemon' # daemon \/ bcall'[Handler] # bcall[Handler])) =>
               /\ tables'["collector_state"] = tables["collector_state"]
               /\ \A tb \in RowTables : IsPrefix(tables[tb], tables'[tb])]_vars

\* C13 witness: reload() is past its flush and its schema script; an event
\* that was pending when it began is in the store, and the watermark stored
\* before the reload is there.
C13_Witness ==
    /\ daemon.op = "reload"
    /\ daemon.pc = "start_collectors"
    /\ atReload # {}
    /\ \A v \in atReload : StoredCount(v) >= 1
    /\ SelectWatermark(tables, "shell") # None

\* C14 (as claimed): a signal handler never waits for a lock that what it
\* interrupted holds: the handler is not blocked in buffer.flush() on the
\* buffer lock while the main thread's interrupted flush holds that lock.
C14_HandlersComplete ==
    ~(/\ resume # "none"
      /\ bcall[Handler].pc = "acquire"
      /\ bufLock = Main)

\* ------------------------------------------------------------------------
\* The in-line flush of push (SpecBuffer)
\* ------------------------------------------------------------------------

\* No explicit flush() was called and no buffer call is in progress.
OnlyPushesReturned ==
    /\ mpc = "run"
    /\ interim = 0
    /\ \A t \in Threads : bcall[t].pc = "idle"

\* C15: when only pushes were made and all have returned, fewer than
\* BUFFER_MAX_SIZE events are pending, and when no insert raised all the
\* other pushed events are in the store: with T or more events pushed (T+1
\* in particular) at least T rows are stored.
C15_AutoFlush ==
    OnlyPushesReturned =>
        /\ Len(events) < BUFFER_MAX_SIZE
        /\ lost = {} =>
              /\ TotalRows = Cardinality(pushed) - Len(events)
              /\ Cardinality(pushed) >= BUFFER_MAX_SIZE => TotalRows >= BUFFER_MAX_SIZE

\* C15 witness: T+1 events were pushed without an explicit flush; the
\* in-line flush stored T of them and the last one is pending.
C15_Witness ==
    /\ OnlyPushesReturned
    /\ lost = {}
    /\ Cardinality(pushed) = BUFFER_MAX_SIZE + 1
    /\ TotalRows = BUFFER_MAX_SIZE
    /\ Len(events) = 1

\* ------------------------------------------------------------------------
\* Properties of parse_transcript (SpecTranscript)
\* ------------------------------------------------------------------------

\* C16 (as claimed): the offset the reader holds is 0 or the position just
\* after a newline, so a partial last line is never behind it.
C16_OffsetAfterLastNewline ==
    \/ transcript.offset = 0
    \/ transcript.file[transcript.offset] = Newline

\* The events of the written entries that end at or before the offset.
RECURSIVE ExpectedEvents(_, _)
ExpectedEvents(written, offset) ==
    IF written = <<>> THEN <<>>
    ELSE (IF Head(written).end <= offset
          THEN EventsOfKind(Head(written).kind, Head(written).ts)
          ELSE <<>>) \o ExpectedEvents(Tail(written), offset)

\* C17: while the writer has only appended complete entries of the expected
\* shape, no call raises, each call consumes the file to its end, and the
\* events returned by the calls so far, in order, are exactly the events of
\* the entries appended before the last call, each once; and a call made
\* when nothing was appended since the last returned call gives no events
\* and the same offset.
C17_ExactlyOncePerEntry ==
    /\ [](transcript.clean =>
            /\ ~transcript.raised
            /\ transcript.events = ExpectedEvents(transcript.written, transcript.offset)
            /\ (transcript.calls > 0 /\ transcript.seenLen = Len(transcript.file)) =>
                  transcript.offset = Len(transcript.file))
    /\ [][(/\ transcript'.calls > transcript.calls
           /\ transcript.calls > 0
           /\ ~transcript.raised
           /\ transcript.seenLen = Len(transcript.file)) =>
              /\ ~transcript'.raised
              /\ transcript'.last = <<>>
              /\ transcript'.offset = transcript.offset]_vars

\* C17 witness: complete entries only; two calls returned events, the
\* second one after an append, and an entry with two events was parsed.
C17_Witness ==
    /\ transcript.clean
    /\ transcript.calls >= 2
    /\ transcript.offset = Len(transcript.file)
    /\ transcript.last # <<>>
    /\ Len(transcript.events) >= Len(transcript.last) + 2

\* C18 (as claimed): no call of parse_transcript raises, whatever the lines
\* of the file are.
C18_NeverRaises == ~transcript.raised

\* ------------------------------------------------------------------------
\* Properties of batch_insert (SpecBatch)
\* ------------------------------------------------------------------------

\* C20 (as claimed): every call of batch_insert for a table that is not in
\* the allow-list raises ValueError and leaves the store as it was.
C20_UnknownTableRejected ==
    [][(batch'.calls > batch.calls /\ batch'.table \notin VALID_TABLES) =>
          (batch'.outcome = "ValueError" /\ tables' = tables)]_vars

\* ------------------------------------------------------------------------
\* Failures of log_health in the daemon (SpecDaemon)
\* ------------------------------------------------------------------------

\* C19 (as claimed): a failure of log_health never ends the operation that
\* called it, so the only exception that ends the main thread is the one of
\* Database.open() in start(), before the store was ever opened; after a
\* successful open, start(), the flush loop, reload() and stop() all run to
\* the end.
C19_HealthFailureContained == daemon.pc = "crashed" => opens = 0

\* ------------------------------------------------------------------------
\* Properties of the store connection (SpecConn)
\* ------------------------------------------------------------------------

\* C21 (as claimed): a batch_insert that ends without having committed,
\* because a row failed or because the process was killed, leaves the store
\* as it was when the batch began: none of its rows is stored and the rows
\* committed before are unchanged.
C21_AllOrNothing ==
    [][\A t \in ConnThreads :
          LET c == txn.call[t]
          IN (/\ c.op = "batch_insert"
              /\ c.pc \in {"rows", "rollback", "exit"}
              /\ txn'.call[t].pc = "idle"
              /\ txn'.outcome # "ok") => tables' = c.before]_vars

\* C22 (as claimed): a thread that executes a statement on the connection
\* holds the lock of the store, and no two threads execute on the
\* connection at the same time.
C22_ConnectionUnderLock ==
    /\ \A t \in ConnThreads : Using(t) => txn.lock = t
    /\ Cardinality({t \in ConnThreads : Using(t)}) <= 1

\* ------------------------------------------------------------------------
\* Mutual exclusion of the buffer (SpecBuffer)
\* ------------------------------------------------------------------------

\* Positions of a push, push_many or flush inside `with self._lock:`.
InLockedSection(t) == bcall[t].pc \in {"insert", "release"}

\* C23: a thread that is inside the locked section of push, push_many or
\* flush holds the buffer lock, at most one thread is inside at a time, and
\* the pending list changes only in a step that enters the locked section
\* while no thread holds the lock.
C23_MutualExclusion ==
    /\ [](\A t \in Threads : InLockedSection(t) => bufLock = t)
    /\ [](Cardinality({t \in Threads : InLockedSection(t)}) <= 1)
    /\ [][events' # events => bufLock = NoThread]_vars

\* C23 witness: a producer is in the insert loop with the lock while
\* another producer waits to enter push and the main thread waits to enter
\* flush.
C23_Witness ==
    \E t1, t2 \in Producers :
        /\ t1 # t2
        /\ bcall[t1].pc = "insert" /\ bufLock = t1
        /\ bcall[t2].pc = "acquire" /\ bcall[t2].op \in {"push", "push_many"}
        /\ bcall[Main].pc = "acquire" /\ bcall[Main].op = "flush"

\* ------------------------------------------------------------------------
\* Push-based collectors (SpecLifecycle)
\* ------------------------------------------------------------------------

\* C24 (as claimed): for a collector whose interval is 0, start() has run
\* setup() once it returned, no polling thread was created and collect()
\* was never invoked, and every stop() that returned has run teardown().
C24_PushBasedLifecycle ==
    Interval(lc.cls) = 0 =>
        /\ lc.setups = lc.starts
        /\ ~lc.polling
        /\ lc.collects = 0
        /\ lc.teardowns = lc.stops

\* ------------------------------------------------------------------------
\* Resuming from the stored cursor (SpecDaemon)
\* ------------------------------------------------------------------------

\* The instance of class cls created last before instance i, or 0.
PreviousInstance(i, cls) ==
    LET prev == {j \in InstIds : j < i /\ inst[j].cls = cls}
    IN IF prev = {} THEN 0 ELSE CHOOSE j \in prev : \A k \in prev : k <= j

\* C25 (as claimed): a fresh ShellCollector that is set up after the
\* previous instance was stopped and its thread has ended starts at the
\* offset the previous instance had reached, so that it emits the history
\* lines the previous instance had not emitted, none twice and none
\* skipped.
C25_ResumeWhereLeftOff ==
    [][\A i \in InstIds :
          LET j == PreviousInstance(i, "shell")
          IN (/\ inst[i].cls = "none"
              /\ inst'[i].cls = "shell"
              /\ j # 0
              /\ inst[j].th = "exited") => inst'[i].offset = inst[j].offset]_vars

\* ------------------------------------------------------------------------
\* First run and later runs of a collector (SpecClaude)
\* ------------------------------------------------------------------------

\* The events of a list of appended entries.
RECURSIVE EventsOfEntries(_)
EventsOfEntries(entries) ==
    IF entries = <<>> THEN <<>>
    ELSE EventsOfKind(Head(entries).kind, Head(entries).ts)
             \o EventsOfEntries(Tail(entries))

\* C26 (as claimed): the first collect() of a collector without stored
\* watermark emits nothing and records the end of the file as its
\* position, and every later collect() emits exactly the events of the
\* entries appended since the previous collect().
C26_FirstRunThenNew ==
    [][cc'.collects > cc.collects =>
          IF ~cc.initialized
          THEN /\ cc'.last = <<>>
               /\ cc.file # <<>> => (cc'.state.known /\ cc'.state.offset = Len(cc.file))
          ELSE cc'.last = EventsOfEntries(cc.since)]_vars


\* ------------------------------------------------------------------------
\* Properties of the pure parsers (SpecParsers)
\* ------------------------------------------------------------------------

\* The prefix holds the marker and, somewhere after it, the bytes \x01+.
MarkerThenPlus(prefix) ==
    /\ Find(prefix, Marker, 0) # -1
    /\ Find(prefix, Plus, Find(prefix, Marker, 0) + Len(Marker)) # -1

Extracted(kind) == probe.fn = "extract" /\ probe.kind = kind /\ probe.pc = "done"

\* C27 (as stated): for every string s of at most 255 encoded bytes and for
\* arbitrary prefix and suffix bytes, the extractor applied to
\* prefix + marker + type tag + length byte + bytes of s + suffix returns s.
C27_RoundTripAnyPrefix == Extracted("built") => probe.out = probe.s

\* C27 (amended): for every string s of at most 255 encoded bytes, arbitrary
\* suffix bytes and every prefix that does not hold the marker followed
\* somewhere by the bytes \x01+, the extractor applied to
\* prefix + marker + type tag + length byte + bytes of s + suffix returns s.
C27_RoundTrip ==
    (Extracted("built") /\ ~MarkerThenPlus(probe.prefix)) => probe.out = probe.s

\* A string with a two-byte character came back from a blob whose prefix
\* holds the marker and whose suffix holds a whole second message.
C27_Witness ==
    /\ Extracted("built")
    /\ Find(probe.prefix, Marker, 0) # -1
    /\ ~MarkerThenPlus(probe.prefix)
    /\ MarkerThenPlus(probe.suffix)
    /\ probe.s = <<99, 233, 43>>
    /\ probe.out = probe.s

\* C28: when the marker is absent, or when fewer than L bytes follow the
\* length byte L, the extractor returns the empty string and does not raise.
C28_EmptyWhenAbsentOrShort ==
    (Extracted("unmarked") \/ (Extracted("truncated") /\ probe.follow < probe.declared))
        => (probe.out = <<>> /\ ~probe.raised)

\* The connections of the lines of a text that show an established
\* connection.
ExpectedConnections(ls) ==
    {ls[i].key : i \in {j \in 1..Len(ls) : ls[j].kind = "established"}}

C30_StoreOpenedFirst ==
    /\ [](opens = 0 =>
            /\ collectors = <<>> /\ nextInst = 0
            /\ \A i \in InstIds : inst[i] = NoInst
            /\ events = <<>> /\ bufLock = NoThread
            /\ \A t \in Threads : bcall[t].pc = "idle"
            /\ ~running /\ ticks = 0
            /\ daemon.pc \in {"init", "crashed"})
    /\ [][(daemon.pc = "init" /\ daemon'.pc # "init") =>
              IF opens' = opens THEN daemon'.pc = "crashed"
              ELSE conn' = "open" /\ daemon'.pc = "log_startup"]_vars
    /\ [][(daemon.pc = "crashed" /\ opens = 0) =>
              /\ daemon' = daemon /\ collectors' = collectors /\ inst' = inst
              /\ ticks' = ticks /\ events' = events /\ tables' = tables]_vars

\* C30 witness: Database.open() raised in start(): the process is over, the
\* store was never opened, and the history file went on growing without any
\* collector there to read it.
C30_Witness ==
    /\ daemon.pc = "crashed"
    /\ opens = 0
    /\ conn = "closed"
    /\ collectors = <<>>
    /\ fileSize > 0


\* ------------------------------------------------------------------------
\* Stored cursors that cannot be parsed (SpecBoot)
\* ------------------------------------------------------------------------

\* The stored cursor of the class is there and is not what its collector
\* writes: no decimal number, for ClaudeCollector no JSON.
Unparseable(cls, cursor) ==
    /\ cursor # None
    /\ IF cls = "claude" THEN cursor # <<>> /\ JsonLoadsState(cursor).json = "JSONDecodeError"
       ELSE ~AllDigits(cursor)

\* C31 (as claimed): an unparseable stored cursor never makes setup() or
\* start() raise, so _start_collectors always starts every registered
\* collector; the collector with the unparseable cursor takes its first-run
\* state: ShellCollector the size of the history file (0 without a file),
\* MessagesCollector no last id, ClaudeCollector an empty file state.
C31_CorruptCursorReseeds ==
    /\ boot.pc # "crashed"
    /\ boot.pc = "running" => boot.started = BootRegistry
    /\ \A cls \in {"shell", "messages"} :
          (cls \in DOMAIN boot.value /\ Unparseable(cls, boot.cursor[cls])) =>
              boot.value[cls] = (IF cls = "messages" THEN -1
                                 ELSE IF boot.exists THEN boot.size ELSE 0)
    /\ (boot.pc # "done" /\ boot.claude.pc = "started"
            /\ Unparseable("claude", boot.cursor["claude"])) =>
          (boot.claude.exc = "none" /\ ~boot.claude.initialized
             /\ boot.claude.state = NoFileState)


\* ------------------------------------------------------------------------
\* The training thread and the state file (SpecSync)
\* ------------------------------------------------------------------------

RunningCycles == {i \in CycleIds : Alive(sync.cyc[i])}

\* C32: at most one run_cycle executes at a time; a trigger_train that finds
\* the training thread alive returns False and starts nothing, and a
\* trigger_train returns True only when no training thread was alive, and
\* then it has started exactly one; the menubar and the schedule timer call
\* it concurrently.
C32_OneTrainingThread ==
    /\ [](sync.pc = "run" => Cardinality(RunningCycles) <= 1)
    /\ [][\A c \in Callers :
            (/\ sync.pc = "run" /\ sync'.kills = sync.kills
             /\ sync.caller[c].pc = "check" /\ sync'.caller[c].pc # "check") =>
                IF RunningCycles # {}
                THEN /\ sync'.caller[c].result = "False"
                     /\ sync'.cyc = sync.cyc /\ sync'.started = sync.started
                ELSE sync'.caller[c].pc = "create"]_vars
    /\ [][\A c \in Callers :
            (/\ sync.pc = "run"
             /\ sync.caller[c].result # "True" /\ sync'.caller[c].result = "True") =>
                /\ RunningCycles = {}
                /\ sync'.started = sync.started + 1
                /\ Alive(sync'.cyc[sync'.thread])]_vars

\* C32 witness: the menubar's call returned True, the timer's call, made
\* while the menubar's was under way, returned False, and the one training
\* thread is evaluating.
C32_Witness ==
    /\ sync.pc = "run"
    /\ sync.caller["menubar"].result = "True" /\ sync.caller["menubar"].pc = "idle"
    /\ sync.caller["timer"].result = "False" /\ sync.caller["timer"].pc = "idle"
    /\ sync.caller["menubar"].calls = 1 /\ sync.caller["timer"].calls = 1
    /\ sync.started = 1
    /\ sync.cyc[1].pc = "evaluating"

\* C33: every return of run_cycle leaves the persisted status at idle, and
\* so does its first step when an interrupted run left another status;
\* adapter_version and train_count are one more than at the start of the
\* cycle after a fully successful cycle and what they were after every
\* other return, and nothing else changes them.
C33_StatusIdleAtReturn ==
    /\ [][\A i \in CycleIds :
            (/\ sync.pc = "run"
             /\ sync.cyc[i].pc # "done" /\ sync'.cyc[i].pc = "done") =>
                /\ LoadState(sync'.file).status = "idle"
                /\ LET up == IF sync'.cyc[i].path = "success" THEN 1 ELSE 0
                   IN /\ LoadState(sync'.file).adapter_version = sync.cyc[i].v0 + up
                      /\ LoadState(sync'.file).train_count = sync.cyc[i].c0 + up]_vars
    /\ [][\A i \in CycleIds :
            (/\ sync.pc = "run"
             /\ sync.cyc[i].pc = "load" /\ sync'.cyc[i].pc = "internet") =>
                LoadState(sync'.file).status = "idle"]_vars
    /\ [][(/\ sync.pc = "run"
           /\ LoadState(sync'.file).adapter_version # LoadState(sync.file).adapter_version) =>
              \E i \in CycleIds :
                  sync.cyc[i].pc = "pulling" /\ sync'.cyc[i].path = "success"]_vars

\* C33 witness: the process was killed while a cycle was training; in the
\* next process one cycle ended below the eval threshold and a later one
\* succeeded; the file holds status idle and version 1.
C33_Witness ==
    /\ sync.pc = "run"
    /\ sync.kills = 1
    /\ \E i, j, l \in CycleIds :
          /\ sync.cyc[i].pc = "killed"
          /\ sync.cyc[j].pc = "done" /\ sync.cyc[j].path = "eval_below_threshold"
          /\ sync.cyc[l].pc = "done" /\ sync.cyc[l].path = "success"
    /\ sync.file.status = "idle"
    /\ sync.file.adapter_version = 1
    /\ sync.file.train_count = 1


\* ------------------------------------------------------------------------
\* New connections only (SpecNetwork)
\* ------------------------------------------------------------------------

\* The connections of the last poll in which lsof printed something, none
\* when there was no such poll.
RECURSIVE PreviousConnections(_)
PreviousConnections(polls) ==
    IF polls = <<>> THEN {}
    ELSE IF ~polls[Len(polls)].ok
    THEN PreviousConnections(SubSeq(polls, 1, Len(polls) - 1))
    ELSE ExpectedConnections(polls[Len(polls)].lines)

\* C34: a collect() in which lsof printed its lines emits one network event
\* for exactly the connections that are in this poll and were not in the
\* previous one: nothing when the connections are the same, one event for a
\* connection that appears, also when it had been there in an earlier poll;
\* a collect() in which lsof failed emits nothing.
C34_NewConnectionsOnly ==
    [][Len(net'.polls) > Len(net.polls) =>
          LET now == net'.polls[Len(net'.polls)]
          IN IF ~now.ok THEN net'.last = {}
             ELSE net'.last = {NetworkEvent(key) :
                                  key \in ExpectedConnections(now.lines)
                                             \ PreviousConnections(net.polls)}]_vars

\* C34 witness: a connection was there in the first poll, gone in the
\* second and back in the third, which emitted it again, and the third poll
\* did not emit the connection that was in the second and third.
C34_Witness ==
    /\ Len(net.polls) = 3
    /\ \A i \in 1..3 : net.polls[i].ok
    /\ LET a == <<Chrome, GoogleAddr, 443>>
           b == <<Slack, CloudAddr, 80>>
       IN /\ ExpectedConnections(net.polls[1].lines) = {a}
          /\ ExpectedConnections(net.polls[2].lines) = {b}
          /\ ExpectedConnections(net.polls[3].lines) = {a, b}
          /\ net.last = {NetworkEvent(a)}

\* ------------------------------------------------------------------------
\* The watermark runs ahead of the flush (SpecCrash)
\* ------------------------------------------------------------------------

ShellWatermark(db) ==
    IF "collector_state" \in DOMAIN db /\ SelectWatermark(db, "shell") # None
    THEN ParseInt(SelectWatermark(db, "shell"))
    ELSE 0

\* The history lines whose event some thread of the process still holds: in
\* the queue, in the argument of a push_many that has not appended yet, or
\* in the batches of a flush that has not inserted them yet.
HeldLines ==
    {events[k].values[2] : k \in 1..Len(events)}
    \cup UNION {{bcall[t].arg[k].values[2] : k \in 1..Len(bcall[t].arg)} :
                    t \in {u \in Threads : bcall[u].pc = "acquire"}}
    \cup UNION {UNION {{bcall[t].by_table[b].rows[k][2] :
                           k \in 1..Len(bcall[t].by_table[b].rows)} :
                       b \in 1..Len(bcall[t].by_table)} : t \in Threads}

StoredLines ==
    IF "shell_events" \in DOMAIN tables
    THEN {tables["shell_events"][k].values[2] : k \in 1..Len(tables["shell_events"])}
    ELSE {}

\* The lines the stored watermark covers that are neither in the store nor
\* held by any thread.
SkippedLines == {n \in 1..MaxFile : n <= ShellWatermark(tables)} \ (StoredLines \cup HeldLines)

OnePerClassSince(cs, since) ==
    /\ Len(cs) = Len(ReloadRegistry)
    /\ \A k \in 1..Len(cs) : cs[k].cls = ReloadRegistry[k] /\ cs[k].id > since

\* C36: whenever a reload() has returned, Daemon.collectors held at its
\* return exactly one instance per registered class, each created during
\* that reload(), and none of the instances from before it.
C36_ReloadReplacesCollectors ==
    (ReloadBooted /\ boot.returned.since >= 0) =>
        OnePerClassSince(boot.returned.collectors, boot.returned.since)

\* The same for the reload() calls during which no other SIGHUP arrived.
UninterruptedReloadReplacesCollectors ==
    (ReloadBooted /\ boot.returned.since >= 0 /\ ~boot.returned.interrupted) =>
        OnePerClassSince(boot.returned.collectors, boot.returned.since)

\* The third of three reload() calls that ran one after the other has
\* returned: the list holds the three instances it created.
SequentialReloadsReached ==
    /\ ReloadBooted
    /\ boot.frames = <<>>
    /\ boot.sighups = MaxSigHups
    /\ ~boot.returned.interrupted
    /\ boot.returned.since = MaxSigHups * Len(ReloadRegistry)
    /\ Len(boot.collectors) = Len(ReloadRegistry)

\* ------------------------------------------------------------------------
\* The flush loop hands over every pushed event (SpecLoop)
\* ------------------------------------------------------------------------

\* C37: while the daemon process is alive, an event that was pushed into
\* the buffer is eventually given to batch_insert.
C37_EventuallyHanded ==
    \A n \in 1..MaxFile :
        (ShellEvent(n) \in pushed) ~>
            (HandedCount(ShellEvent(n).values) > 0 \/ ~ProcessAlive)

\* The flush of a signal handler that waits for the lock the interrupted
\* flush of the main thread holds.
HandlerBlocked == resume # "none" /\ (bufLock = Main \/ bcall[Main].pc # "idle")

\* The same, the runs in which a handler blocks on the buffer lock apart.
HandedUnlessHandlerBlocked ==
    \A n \in 1..MaxFile :
        (ShellEvent(n) \in pushed) ~>
            (HandedCount(ShellEvent(n).values) > 0 \/ ~ProcessAlive \/ HandlerBlocked)

\* ------------------------------------------------------------------------
\* Events of one table with different column lists (SpecColumns)
\* ------------------------------------------------------------------------

\* C38: every row of the store was written under the column list of the
\* event it came from: it has one value per column, and each value is the
\* one its event carried for that column.
C38_OwnColumns ==
    \A k \in 1..Len(tables["shell_events"]) :
        LET row == tables["shell_events"][k]
        IN /\ Len(row.values) = Len(row.columns)
           /\ \A j \in 1..Len(row.values) : row.values[j][1] = row.columns[j]

\* ------------------------------------------------------------------------
\* Nothing is left behind by stop() (SpecDaemon)
\* ------------------------------------------------------------------------

\* C39: when stop() has returned and the process exits, the queue is empty
\* and every event that a collect() gave to push or push_many was handed to
\* batch_insert, also after a join that timed out.
C39_NothingLeftAtStop ==
    daemon.pc = "exited" =>
        /\ events = <<>>
        /\ \A ev \in pushed : HandedCount(ev.values) >= 1

\* ------------------------------------------------------------------------
\* The queue stays below the threshold (SpecBuffer)
\* ------------------------------------------------------------------------

\* Thread t returns from a push or push_many in this step.
PushReturns(t) ==
    /\ bcall[t].op \in {"push", "push_many"}
    /\ bcall[t].pc # "idle"
    /\ bcall'[t].pc = "idle"

\* C40: in the state in which a push or push_many returns, whatever the
\* other producers and flushes have done meanwhile, the queue holds fewer
\* than BUFFER_MAX_SIZE events; the queue never holds that many between two
\* steps of the threads at all.
C40_QueueBelowThreshold ==
    /\ [][\A t \in Threads : PushReturns(t) => Len(events') < BUFFER_MAX_SIZE]_vars
    /\ [](Len(events) < BUFFER_MAX_SIZE)

\* C40 witness: a producer has returned from all its pushes while the other
\* one is inside the in-line flush of its own push, holding the lock; an
\* interim flush has run, and the queue is empty.
C40_Witness ==
    /\ \E t \in Producers :
          /\ sent[t] = EventsPerProducer
          /\ bcall[t].pc = "idle"
          /\ \E u \in Producers \ {t} :
                /\ bcall[u].op \in {"push", "push_many"}
                /\ bcall[u].pc = "insert"
                /\ bufLock = u
    /\ interim = MaxInterimFlush
    /\ bcall[Main].pc = "idle"
    /\ Len(events) = 0
    /\ Cardinality(pushed) = NumProducers * EventsPerProducer

====
